---------------------------- MODULE Spec2Model ----------------------------
(***************************************************************************)
(* Model of the hybrid decryption core of gwm-data-processor:              *)
(*   src/decryption_tools/automated_decryption_pipeline.py                 *)
(*     AutomatedDecryptionPipeline.decrypt_aes_key        (key unwrapper)  *)
(*     AutomatedDecryptionPipeline.decrypt_location_data  (decipherer)     *)
(*     AutomatedDecryptionPipeline._process_survey_group  (batch loop)     *)
(*                                                                         *)
(* Python str and bytes values are sequences of code points / byte values  *)
(* (naturals below 256).  The standard-library and `cryptography` calls    *)
(* the code makes (base64.b64decode, bytes.decode, json.loads, RSA and AES *)
(* primitives) are operators that compute on those sequences and return    *)
(* either a value or the failure the call raises.                          *)
(***************************************************************************)
EXTENDS Integers, Sequences, FiniteSets, TLC

(***************************************************************************)
(* Results of calls that may raise: [ok |-> TRUE, val |-> v] or            *)
(* [ok |-> FALSE, err |-> message] (the text of str(e)).                   *)
(***************************************************************************)
Ok(v) == [ok |-> TRUE, val |-> v]

Raise(msg) == [ok |-> FALSE, err |-> msg]

Min(a, b) == IF a <= b THEN a ELSE b

\* seq[from:] of Python for a 1-based sequence: drops the first n elements
Drop(seq, n) == SubSeq(seq, n + 1, Len(seq))

\* seq[:n] of Python for 0 <= n
Take(seq, n) == SubSeq(seq, 1, Min(n, Len(seq)))

\* str.startswith(prefix)
StartsWith(s, prefix) ==
    /\ Len(s) >= Len(prefix)
    /\ SubSeq(s, 1, Len(prefix)) = prefix

(***************************************************************************)
(* Byte arithmetic.                                                        *)
(***************************************************************************)
RECURSIVE BitXor(_, _)
\* a ^ b on naturals
BitXor(a, b) ==
    IF a = 0 THEN b
    ELSE IF b = 0 THEN a
    ELSE ((a + b) % 2) + 2 * BitXor(a \div 2, b \div 2)

(***************************************************************************)
(* base64 (binascii.a2b_base64 in non-strict mode, which is what           *)
(* base64.b64decode(s) calls, and binascii.b2a_base64 for b64encode).      *)
(***************************************************************************)
\* value of a character of the base64 alphabet, 64 for any other character
B64Value(c) ==
    IF c >= 65 /\ c <= 90 THEN c - 65           \* A-Z
    ELSE IF c >= 97 /\ c <= 122 THEN c - 71     \* a-z
    ELSE IF c >= 48 /\ c <= 57 THEN c + 4       \* 0-9
    ELSE IF c = 43 THEN 62                      \* +
    ELSE IF c = 47 THEN 63                      \* /
    ELSE 64

\* character of a 6-bit value
B64Char(v) ==
    IF v < 26 THEN v + 65
    ELSE IF v < 52 THEN v + 71
    ELSE IF v < 62 THEN v - 4
    ELSE IF v = 62 THEN 43
    ELSE 47

\* one iteration of the decoding loop on character c; st holds quad (the
\* position in the group of four), left (the leftover bits), pads (the run of
\* '=' seen), out (the bytes so far), n (the data characters seen) and done
\* (a complete pad sequence ends the parse)
A2bStep(st, c) ==
    IF st.done THEN st
    ELSE IF c = 61
    THEN IF st.quad >= 2 /\ st.quad + st.pads + 1 >= 4
         THEN [st EXCEPT !.done = TRUE]
         ELSE [st EXCEPT !.pads = IF st.quad >= 2 THEN st.pads + 1 ELSE st.pads]
    ELSE LET v == B64Value(c) IN
         IF v >= 64 THEN st
         ELSE IF st.quad = 0
              THEN [st EXCEPT !.quad = 1, !.left = v, !.pads = 0, !.n = st.n + 1]
         ELSE IF st.quad = 1
              THEN [st EXCEPT !.quad = 2, !.left = v % 16, !.pads = 0, !.n = st.n + 1,
                              !.out = Append(st.out, st.left * 4 + (v \div 16))]
         ELSE IF st.quad = 2
              THEN [st EXCEPT !.quad = 3, !.left = v % 4, !.pads = 0, !.n = st.n + 1,
                              !.out = Append(st.out, st.left * 16 + (v \div 4))]
         ELSE [st EXCEPT !.quad = 0, !.left = 0, !.pads = 0, !.n = st.n + 1,
                         !.out = Append(st.out, st.left * 64 + v)]

RECURSIVE A2bRun(_, _, _, _)
\* the loop over the characters i..hi
A2bRun(s, i, hi, st) ==
    IF i > hi \/ st.done THEN st ELSE A2bRun(s, i + 1, hi, A2bStep(st, s[i]))

RECURSIVE A2bLoop(_, _, _)
\* the loop over the whole input, taken in runs of 32 characters
A2bLoop(s, i, st) ==
    IF i > Len(s) \/ st.done THEN st
    ELSE A2bLoop(s, i + 32, A2bRun(s, i, Min(i + 31, Len(s)), st))

RECURSIVE IntToStr(_)
\* str(n) for a natural n
IntToStr(n) == IF n < 10 THEN <<48 + n>> ELSE IntToStr(n \div 10) \o <<48 + (n % 10)>>

\* "Incorrect padding"
MsgIncorrectPadding ==
    <<73, 110, 99, 111, 114, 114, 101, 99, 116, 32, 112, 97, 100, 100, 105, 110, 103>>

\* "Invalid base64-encoded string: number of data characters (n) cannot be 1
\* more than a multiple of 4"
MsgInvalidBase64(n) ==
    <<73, 110, 118, 97, 108, 105, 100, 32, 98, 97, 115, 101, 54, 52, 45, 101, 110,
      99, 111, 100, 101, 100, 32, 115, 116, 114, 105, 110, 103, 58, 32, 110, 117,
      109, 98, 101, 114, 32, 111, 102, 32, 100, 97, 116, 97, 32, 99, 104, 97, 114,
      97, 99, 116, 101, 114, 115, 32, 40>>
    \o IntToStr(n) \o
    <<41, 32, 99, 97, 110, 110, 111, 116, 32, 98, 101, 32, 49, 32, 109, 111, 114,
      101, 32, 116, 104, 97, 110, 32, 97, 32, 109, 117, 108, 116, 105, 112, 108,
      101, 32, 111, 102, 32, 52>>

\* "string argument should contain only ASCII characters"
MsgNotAscii ==
    <<115, 116, 114, 105, 110, 103, 32, 97, 114, 103, 117, 109, 101, 110, 116, 32,
      115, 104, 111, 117, 108, 100, 32, 99, 111, 110, 116, 97, 105, 110, 32, 111,
      110, 108, 121, 32, 65, 83, 67, 73, 73, 32, 99, 104, 97, 114, 97, 99, 116,
      101, 114, 115>>

\* binascii.a2b_base64(s) in non-strict mode
A2bBase64(s) ==
    LET Finish(st) ==
            IF st.done \/ st.quad = 0 THEN Ok(st.out)
            ELSE IF st.quad = 1 THEN Raise(MsgInvalidBase64(st.n))
            ELSE Raise(MsgIncorrectPadding)
    IN  Finish(A2bLoop(s, 1, [quad |-> 0, left |-> 0, pads |-> 0, out |-> <<>>,
                              n |-> 0, done |-> FALSE]))

\* base64.b64decode(s) of a str or bytes value: a str must be ASCII
B64Decode(s) ==
    IF \E i \in 1..Len(s) : s[i] >= 128
    THEN Raise(MsgNotAscii)
    ELSE A2bBase64(s)

\* base64.b64encode(data).decode('utf-8'): the character at each position of
\* the output, four for every group of three bytes, '=' where the group is short
B64Encode(b) ==
    LET byte(k) == IF k <= Len(b) THEN b[k] ELSE 0
        char(j) ==
            LET g == 3 * ((j - 1) \div 4)
                q == (j - 1) % 4
            IN  IF q = 0 THEN B64Char(byte(g + 1) \div 4)
                ELSE IF q = 1
                THEN B64Char((byte(g + 1) % 4) * 16 + (byte(g + 2) \div 16))
                ELSE IF q = 2
                THEN (IF g + 2 > Len(b) THEN 61
                      ELSE B64Char((byte(g + 2) % 16) * 4 + (byte(g + 3) \div 64)))
                ELSE (IF g + 3 > Len(b) THEN 61 ELSE B64Char(byte(g + 3) % 64))
    IN  [j \in 1..(4 * ((Len(b) + 2) \div 3)) |-> char(j)]

(***************************************************************************)
(* bytes.decode('utf-8').  The payloads and keys of the model use ASCII    *)
(* text, so a byte of 128 or more is never part of a valid multi-byte      *)
(* sequence here and makes the decode raise.                               *)
(***************************************************************************)
\* "'utf-8' codec can't decode byte"
MsgUtf8 ==
    <<39, 117, 116, 102, 45, 56, 39, 32, 99, 111, 100, 101, 99, 32, 99, 97, 110,
      39, 116, 32, 100, 101, 99, 111, 100, 101, 32, 98, 121, 116, 101>>

Utf8Decode(b) ==
    IF \E i \in 1..Len(b) : b[i] >= 128
    THEN Raise(MsgUtf8)
    ELSE Ok(b)

(***************************************************************************)
(* json.loads(s) (json.decoder / json.scanner).  Parsed values are tagged  *)
(* records: [t |-> "dict", items |-> <<[k |-> key, v |-> value], ...>>],   *)
(* [t |-> "list", elems |-> <<...>>], [t |-> "str", chars |-> <<...>>],    *)
(* [t |-> "int", n |-> i], [t |-> "float", text |-> <<...>>],              *)
(* [t |-> "bool", b |-> TRUE], [t |-> "none"].  Positions are Python's     *)
(* 0-based indexes.  The texts of the model hold no backslash escapes and  *)
(* no line breaks.                                                         *)
(***************************************************************************)
\* "Expecting value"
MsgExpectingValue ==
    <<69, 120, 112, 101, 99, 116, 105, 110, 103, 32, 118, 97, 108, 117, 101>>

\* "Expecting property name enclosed in double quotes"
MsgExpectingName ==
    <<69, 120, 112, 101, 99, 116, 105, 110, 103, 32, 112, 114, 111, 112, 101,
      114, 116, 121, 32, 110, 97, 109, 101, 32, 101, 110, 99, 108, 111, 115,
      101, 100, 32, 105, 110, 32, 100, 111, 117, 98, 108, 101, 32, 113, 117,
      111, 116, 101, 115>>

\* "Expecting ':' delimiter"
MsgExpectingColon ==
    <<69, 120, 112, 101, 99, 116, 105, 110, 103, 32, 39, 58, 39, 32, 100,
      101, 108, 105, 109, 105, 116, 101, 114>>

\* "Expecting ',' delimiter"
MsgExpectingComma ==
    <<69, 120, 112, 101, 99, 116, 105, 110, 103, 32, 39, 44, 39, 32, 100,
      101, 108, 105, 109, 105, 116, 101, 114>>

\* "Unterminated string starting at"
MsgUnterminated ==
    <<85, 110, 116, 101, 114, 109, 105, 110, 97, 116, 101, 100, 32, 115, 116,
      114, 105, 110, 103, 32, 115, 116, 97, 114, 116, 105, 110, 103, 32, 97,
      116>>

\* "Extra data"
MsgExtraData ==
    <<69, 120, 116, 114, 97, 32, 100, 97, 116, 97>>

\* "Invalid control character at"
MsgControlChar ==
    <<73, 110, 118, 97, 108, 105, 100, 32, 99, 111, 110, 116, 114, 111, 108,
      32, 99, 104, 97, 114, 97, 99, 116, 101, 114, 32, 97, 116>>

\* "Invalid \escape"
MsgEscape ==
    <<73, 110, 118, 97, 108, 105, 100, 32, 92, 101, 115, 99, 97, 112, 101>>

\* str(JSONDecodeError(msg, doc, pos)): "msg: line 1 column pos+1 (char pos)"
JSONDecodeErrorText(msg, pos) ==
    msg \o <<58, 32, 108, 105, 110, 101, 32, 49, 32, 99, 111, 108, 117, 109, 110, 32>>
        \o IntToStr(pos + 1) \o <<32, 40, 99, 104, 97, 114, 32>> \o IntToStr(pos)
        \o <<41>>

\* s[p:p+1] as a code point, -1 when p is past the end
Ch(s, p) == IF p >= 0 /\ p < Len(s) THEN s[p + 1] ELSE -1

\* s[from:to] of Python for 0 <= from
Slice(s, from, to) == SubSeq(s, from + 1, Min(to, Len(s)))

IsWs(c) == c \in {32, 9, 10, 13}

IsDigit(c) == c >= 48 /\ c <= 57

RECURSIVE SkipWs(_, _)
\* WHITESPACE.match(s, p).end()
SkipWs(s, p) == IF IsWs(Ch(s, p)) THEN SkipWs(s, p + 1) ELSE p

RECURSIVE DigitsEnd(_, _)
\* the end of the run of digits that starts at p
DigitsEnd(s, p) == IF IsDigit(Ch(s, p)) THEN DigitsEnd(s, p + 1) ELSE p

RECURSIVE DigitsValue(_, _, _, _)
DigitsValue(s, p, q, acc) ==
    IF p >= q THEN acc ELSE DigitsValue(s, p + 1, q, acc * 10 + (Ch(s, p) - 48))

JOk(v, end) == [ok |-> TRUE, val |-> v, end |-> end]

JErr(msg, pos) == [ok |-> FALSE, msg |-> msg, pos |-> pos]

JDict(items) == [t |-> "dict", items |-> items]

JList(elems) == [t |-> "list", elems |-> elems]

JStr(chars) == [t |-> "str", chars |-> chars]

JInt(n) == [t |-> "int", n |-> n]

JFloat(text) == [t |-> "float", text |-> text]

JBool(b) == [t |-> "bool", b |-> b]

JNone == [t |-> "none"]

\* d[k] = v on the item list of a dict: a key keeps its first position
DictSet(items, k, v) ==
    IF \E i \in 1..Len(items) : items[i].k = k
    THEN [i \in 1..Len(items) |-> IF items[i].k = k THEN [k |-> k, v |-> v] ELSE items[i]]
    ELSE Append(items, [k |-> k, v |-> v])

\* k in d
DictHas(items, k) == \E i \in 1..Len(items) : items[i].k = k

\* d.get(k), None when absent
DictGet(items, k) ==
    IF DictHas(items, k)
    THEN items[CHOOSE i \in 1..Len(items) : items[i].k = k].v
    ELSE JNone

\* index of the first '"', backslash or control character at or after p, -1 if none
StringEnd(s, p) ==
    LET Ends(c) == c = 34 \/ c = 92 \/ c < 32
    IN  IF \A q \in (p + 1)..Len(s) : ~Ends(s[q]) THEN -1
        ELSE CHOOSE q \in p..(Len(s) - 1) :
                 Ends(s[q + 1]) /\ \A r \in (p + 1)..q : ~Ends(s[r])

\* scanstring(s, end): end is the index after the opening quote
ScanString(s, end) ==
    LET Terminator(t) ==
            IF t = -1 THEN JErr(MsgUnterminated, end - 1)
            ELSE IF Ch(s, t) = 34 THEN JOk(Slice(s, end, t), t + 1)
            ELSE IF Ch(s, t) = 92 THEN JErr(MsgEscape, t)
            ELSE JErr(MsgControlChar, t)
    IN  Terminator(StringEnd(s, end))

\* NUMBER_RE.match(s, idx): (-?(?:0|[1-9]\d*))(\.\d+)?([eE][-+]?\d+)?
\* p0, p1, p2 and p3 are the ends of the sign, of the integer part, of the
\* fraction and of the exponent
ScanNumber(s, idx) ==
    LET Matched(p0, p1, p3) ==
            IF p1 = p0 THEN JErr(MsgExpectingValue, idx)
            ELSE IF p3 = p1
            THEN JOk(JInt(IF p0 = idx THEN DigitsValue(s, p0, p1, 0)
                          ELSE 0 - DigitsValue(s, p0, p1, 0)), p1)
            ELSE JOk(JFloat(Slice(s, idx, p3)), p3)
        Exponent(p0, p1, p2, e0) ==
            Matched(p0, p1, IF (Ch(s, p2) = 101 \/ Ch(s, p2) = 69) /\ IsDigit(Ch(s, e0))
                            THEN DigitsEnd(s, e0) ELSE p2)
        ExponentSign(p0, p1, p2) ==
            Exponent(p0, p1, p2,
                     IF Ch(s, p2 + 1) = 45 \/ Ch(s, p2 + 1) = 43 THEN p2 + 2 ELSE p2 + 1)
        Fraction(p0, p1) ==
            ExponentSign(p0, p1, IF Ch(s, p1) = 46 /\ IsDigit(Ch(s, p1 + 1))
                                 THEN DigitsEnd(s, p1 + 1) ELSE p1)
        IntegerPart(p0) ==
            Fraction(p0, IF Ch(s, p0) = 48 THEN p0 + 1 ELSE DigitsEnd(s, p0))
    IN  IntegerPart(IF Ch(s, idx) = 45 THEN idx + 1 ELSE idx)

RECURSIVE ScanOnce(_, _)
RECURSIVE JSONObject(_, _)
RECURSIVE JSONObjectPairs(_, _, _)
RECURSIVE JSONArray(_, _)
RECURSIVE JSONArrayValues(_, _, _)

\* scan_once(s, idx)
ScanOnce(s, idx) ==
    LET Text(r) == IF r.ok THEN JOk(JStr(r.val), r.end) ELSE r
        Number(c, m) ==
            IF m.ok THEN m
            ELSE IF c = 78 /\ Slice(s, idx, idx + 3) = <<78, 97, 78>>
            THEN JOk(JFloat(<<78, 97, 78>>), idx + 3)
            ELSE IF c = 73 /\ Slice(s, idx, idx + 8) = <<73, 110, 102, 105, 110, 105, 116, 121>>
            THEN JOk(JFloat(<<73, 110, 102, 105, 110, 105, 116, 121>>), idx + 8)
            ELSE IF c = 45 /\ Slice(s, idx, idx + 9) = <<45, 73, 110, 102, 105, 110, 105, 116, 121>>
            THEN JOk(JFloat(<<45, 73, 110, 102, 105, 110, 105, 116, 121>>), idx + 9)
            ELSE JErr(MsgExpectingValue, idx)
        Value(c) ==
            IF c = -1 THEN JErr(MsgExpectingValue, idx)
            ELSE IF c = 34 THEN Text(ScanString(s, idx + 1))
            ELSE IF c = 123 THEN JSONObject(s, idx + 1)
            ELSE IF c = 91 THEN JSONArray(s, idx + 1)
            ELSE IF c = 110 /\ Slice(s, idx, idx + 4) = <<110, 117, 108, 108>>
            THEN JOk(JNone, idx + 4)
            ELSE IF c = 116 /\ Slice(s, idx, idx + 4) = <<116, 114, 117, 101>>
            THEN JOk(JBool(TRUE), idx + 4)
            ELSE IF c = 102 /\ Slice(s, idx, idx + 5) = <<102, 97, 108, 115, 101>>
            THEN JOk(JBool(FALSE), idx + 5)
            ELSE Number(c, ScanNumber(s, idx))
    IN  Value(Ch(s, idx))

\* JSONObject((s, end)): end is the index after '{'
JSONObject(s, end) ==
    LET First(e1) ==
            IF Ch(s, e1) = 34 THEN JSONObjectPairs(s, e1 + 1, <<>>)
            ELSE IF Ch(s, e1) = 125 THEN JOk(JDict(<<>>), e1 + 1)
            ELSE JErr(MsgExpectingName, e1)
    IN  First(IF Ch(s, end) # 34 /\ IsWs(Ch(s, end)) THEN SkipWs(s, end) ELSE end)

\* the `while True` loop of JSONObject: end is the index after the key's quote
JSONObjectPairs(s, end, pairs) ==
    LET NextKey(added, e4) ==
            IF Ch(s, e4) # 34 THEN JErr(MsgExpectingName, e4)
            ELSE JSONObjectPairs(s, e4 + 1, added)
        Separator(added, e3) ==
            IF Ch(s, e3) = 125 THEN JOk(JDict(added), e3 + 1)
            ELSE IF Ch(s, e3) # 44 THEN JErr(MsgExpectingComma, e3)
            ELSE NextKey(added, SkipWs(s, e3 + 1))
        Pair(key, value) ==
            IF ~value.ok THEN value
            ELSE Separator(DictSet(pairs, key.val, value.val), SkipWs(s, value.end))
        Colon(key, e1) ==
            IF Ch(s, e1) # 58 THEN JErr(MsgExpectingColon, e1)
            ELSE Pair(key, ScanOnce(s, SkipWs(s, e1 + 1)))
        Key(key) ==
            IF ~key.ok THEN key
            ELSE Colon(key, IF Ch(s, key.end) # 58 THEN SkipWs(s, key.end) ELSE key.end)
    IN  Key(ScanString(s, end))

\* JSONArray((s, end)): end is the index after '['
JSONArray(s, end) ==
    LET First(e1) ==
            IF Ch(s, e1) = 93 THEN JOk(JList(<<>>), e1 + 1)
            ELSE JSONArrayValues(s, e1, <<>>)
    IN  First(SkipWs(s, end))

\* the `while True` loop of JSONArray
JSONArrayValues(s, end, values) ==
    LET Separator(added, e1) ==
            IF Ch(s, e1) = 93 THEN JOk(JList(added), e1 + 1)
            ELSE IF Ch(s, e1) # 44 THEN JErr(MsgExpectingComma, e1)
            ELSE JSONArrayValues(s, SkipWs(s, e1 + 1), added)
        Element(value) ==
            IF ~value.ok THEN value
            ELSE Separator(Append(values, value.val), SkipWs(s, value.end))
    IN  Element(ScanOnce(s, end))

\* json.loads(s)
JsonLoads(s) ==
    LET End(obj, end) ==
            IF end # Len(s) THEN Raise(JSONDecodeErrorText(MsgExtraData, end))
            ELSE Ok(obj.val)
        Decoded(obj) ==
            IF ~obj.ok THEN Raise(JSONDecodeErrorText(obj.msg, obj.pos))
            ELSE End(obj, SkipWs(s, obj.end))
    IN  Decoded(ScanOnce(s, SkipWs(s, 0)))

\* bool(v) of a parsed JSON value
Truthy(v) ==
    IF v.t = "dict" THEN Len(v.items) > 0
    ELSE IF v.t = "list" THEN Len(v.elems) > 0
    ELSE IF v.t = "str" THEN Len(v.chars) > 0
    ELSE IF v.t = "int" THEN v.n # 0
    ELSE IF v.t = "float"
    THEN \E i \in 1..Len(v.text) :
            /\ (v.text[i] >= 49 /\ v.text[i] <= 57) \/ v.text[i] = 78 \/ v.text[i] = 73
            /\ \A j \in 1..(i - 1) : v.text[j] # 101 /\ v.text[j] # 69
    ELSE IF v.t = "bool" THEN v.b
    ELSE FALSE

(***************************************************************************)
(* Python values outside JSON.                                             *)
(***************************************************************************)
\* a bytes value
PyBytes(b) == [t |-> "bytes", bytes |-> b]

\* float('nan'): what pandas gives for an empty CSV cell
PyNaN == JFloat(<<78, 97, 78>>)

\* marks a column the row does not have
Absent == [t |-> "absent"]

\* bool(v) of a value a row or a local variable can hold
PyTruthy(v) ==
    IF v.t = "bytes" THEN Len(v.bytes) > 0
    ELSE IF v.t = "absent" THEN FALSE
    ELSE Truthy(v)

\* hashlib.sha256(s.encode('utf-8')).hexdigest(): the digest is kept as the
\* term sha256(s), so two digests are equal exactly when their inputs are
Sha256Hex(chars) == [t |-> "sha256hex", of |-> chars]

(***************************************************************************)
(* The RSA primitives of `cryptography`, on a toy scale.  A key pair is    *)
(* [kid |-> n].  A ciphertext is <<padding tag, kid>> followed by the      *)
(* plaintext bytes each shifted by 101 modulo 256; decryption with another *)
(* padding or another key pair fails.                                      *)
(***************************************************************************)
OAEP == "OAEP"

PKCS1v15 == "PKCS1v15"

PaddingTag(padding) == IF padding = OAEP THEN 79 ELSE 80

\* public_key.encrypt(plaintext, padding)
RSAEncrypt(key, plaintext, padding) ==
    <<PaddingTag(padding), key.kid>>
    \o [i \in 1..Len(plaintext) |-> (plaintext[i] + 101) % 256]

\* bytes of no meaning, not valid UTF-8
ImplicitRejectionBytes == <<200, 17, 254>>

\* private_key.decrypt(ciphertext, padding): the set of outcomes.  OAEP fails
\* on a ciphertext that is not an OAEP ciphertext for this key.  PKCS1v15 on
\* such a ciphertext raises, or (OpenSSL's implicit rejection) returns bytes
\* of no meaning: which one depends on the library build.
RSADecrypt(key, ciphertext, padding) ==
    IF /\ Len(ciphertext) >= 2
       /\ ciphertext[1] = PaddingTag(padding)
       /\ ciphertext[2] = key.kid
    THEN {Ok([i \in 1..(Len(ciphertext) - 2) |-> (ciphertext[i + 2] + 155) % 256])}
    ELSE IF padding = OAEP THEN {Raise(<<68, 101, 99, 114, 121, 112, 116, 105, 111,
          110, 32, 102, 97, 105, 108, 101, 100>>)}
    ELSE {Raise(<<68, 101, 99, 114, 121, 112, 116, 105, 111, 110, 32, 102, 97, 105,
          108, 101, 100>>), Ok(ImplicitRejectionBytes)}

(***************************************************************************)
(* The AES primitives of `cryptography`, on a toy scale: the block cipher  *)
(* adds the key bytes and the position to a 16-byte block modulo 256.  The *)
(* modes, the layouts and the failures (invalid key size, data not a       *)
(* multiple of the block length, invalid tag) are those of the library.    *)
(***************************************************************************)
\* key[i % len(key)] for the 0-based i
KeyByte(key, i) == key[(i % Len(key)) + 1]

\* algorithms.AES(key) raises ValueError for any other key size
AESKeySizeOk(key) == Len(key) \in {16, 24, 32}

BlockEncrypt(key, block) ==
    [i \in 1..Len(block) |-> (block[i] + KeyByte(key, i - 1) + i) % 256]

BlockDecrypt(key, block) ==
    [i \in 1..Len(block) |-> (block[i] + 512 - KeyByte(key, i - 1) - i) % 256]

XorSeq(a, b) == [i \in 1..Len(a) |-> BitXor(a[i], b[i])]

RECURSIVE CbcEncryptBlocks(_, _, _)
CbcEncryptBlocks(key, prev, padded) ==
    IF Len(padded) = 0 THEN <<>>
    ELSE LET c == BlockEncrypt(key, XorSeq(Take(padded, 16), prev))
         IN  c \o CbcEncryptBlocks(key, c, Drop(padded, 16))

RECURSIVE CbcDecryptBlocks(_, _, _)
CbcDecryptBlocks(key, prev, content) ==
    IF Len(content) = 0 THEN <<>>
    ELSE XorSeq(BlockDecrypt(key, Take(content, 16)), prev)
         \o CbcDecryptBlocks(key, Take(content, 16), Drop(content, 16))

\* Cipher(AES(key), CBC(iv)).decryptor(): update(content) + finalize()
AesCbcDecrypt(key, iv, content) ==
    IF ~AESKeySizeOk(key) THEN Raise(<<73, 110, 118, 97, 108, 105, 100, 32, 107, 101,
          121, 32, 115, 105, 122, 101, 32, 102, 111, 114, 32, 65, 69, 83, 46>>)
    ELSE IF Len(iv) # 16 THEN Raise(<<73, 110, 118, 97, 108, 105, 100, 32, 73, 86, 32,
          115, 105, 122, 101, 32, 102, 111, 114, 32, 67, 66, 67, 46>>)
    ELSE IF Len(content) % 16 # 0
    THEN Raise(<<84, 104, 101, 32, 108, 101, 110, 103, 116, 104, 32, 111, 102, 32, 116,
          104, 101, 32, 112, 114, 111, 118, 105, 100, 101, 100, 32, 100, 97, 116, 97,
          32, 105, 115, 32, 110, 111, 116, 32, 97, 32, 109, 117, 108, 116, 105, 112,
          108, 101, 32, 111, 102, 32, 116, 104, 101, 32, 98, 108, 111, 99, 107, 32,
          108, 101, 110, 103, 116, 104, 46>>)
    ELSE Ok(CbcDecryptBlocks(key, iv, content))

\* the key stream of the counter mode under GCM
GcmKeyStream(key, nonce, n) ==
    [i \in 1..n |-> (3 * KeyByte(key,
          i - 1) + nonce[((i - 1) % Len(nonce)) + 1] + i) % 256]

\* the 16-byte authentication tag of a ciphertext
GcmTag(key, nonce, ciphertext) ==
    [i \in 1..16 |->
        (7 * KeyByte(key, i - 1) + nonce[((i - 1) % Len(nonce)) + 1] + 31 * i
         + Len(ciphertext)
         + (IF Len(ciphertext) = 0 THEN 0
            ELSE ciphertext[((i - 1) % Len(ciphertext)) + 1])) % 256]

\* Cipher(AES(key), GCM(nonce, tag)).decryptor(): update(ciphertext) + finalize();
\* finalize raises InvalidTag, whose str() is empty
AesGcmDecrypt(key, nonce, tag, ciphertext) ==
    IF ~AESKeySizeOk(key) THEN Raise(<<73, 110, 118, 97, 108, 105, 100, 32, 107, 101,
          121, 32, 115, 105, 122, 101, 32, 102, 111, 114, 32, 65, 69, 83, 46>>)
    ELSE IF tag # GcmTag(key, nonce, ciphertext) THEN Raise(<<>>)
    ELSE Ok(XorSeq(ciphertext, GcmKeyStream(key, nonce, Len(ciphertext))))

(***************************************************************************)
(* AutomatedDecryptionPipeline.decrypt_aes_key and decrypt_location_data:  *)
(* the candidates, each as the code computes it.                           *)
(***************************************************************************)
\* base64.b64decode(x) of a value taken from the parsed envelope: anything but
\* a str raises TypeError
B64DecodeValue(x) ==
    IF x.t = "str" THEN B64Decode(x.chars)
    ELSE Raise(<<97, 114, 103, 117, 109, 101, 110, 116, 32, 115, 104, 111, 117, 108,
          100, 32, 98, 101, 32, 97, 32, 98, 121, 116, 101, 115, 45, 108, 105, 107, 101,
          32, 111, 98, 106, 101, 99, 116, 32, 111, 114, 32, 65, 83, 67, 73, 73, 32,
          115, 116, 114, 105, 110, 103>>)

\* the RSA plaintext taken as the key itself, without the second decode
KeyFromDecryptedUndecoded(decrypted_data) == Ok(decrypted_data)

\* "The decrypted data is a base64-encoded AES key string": decode('utf-8'),
\* then base64.b64decode
KeyFromDecrypted(decrypted_data) ==
    LET Decode(aes_key_base64) ==
            IF ~aes_key_base64.ok THEN aes_key_base64 ELSE B64Decode(aes_key_base64.val)
    IN  Decode(Utf8Decode(decrypted_data))

\* bytes(...).decode('utf-8') followed by json.loads
DecodeJson(bytes) ==
    LET Loads(decrypted_json) ==
            IF ~decrypted_json.ok THEN decrypted_json ELSE JsonLoads(decrypted_json.val)
    IN  Loads(Utf8Decode(bytes))

\* an XOR loop that starts the key at its second byte
XorDecryptedOffByOne(data, key) ==
    [i \in 1..Len(data) |-> BitXor(data[i], KeyByte(key, i))]

\* decrypted.append(encrypted_data[i] ^ aes_key[i % len(aes_key)]) for every i
XorDecrypted(data, key) ==
    [i \in 1..Len(data) |-> BitXor(data[i], KeyByte(key, i - 1))]

\* Method 1: XOR with the repeating key
XorCandidate(data, key) ==
    IF Len(data) > 0 /\ Len(key) = 0 THEN Raise(<<105, 110, 116, 101, 103, 101, 114,
          32, 109, 111, 100, 117, 108, 111, 32, 98, 121, 32, 122, 101, 114, 111>>)
    ELSE DecodeJson(XorDecrypted(data, key))

GcmNonceLen == 12

GcmTagLen == 16

GcmMinLen == 28

CbcIvLen == 16

\* Method 2: AES-GCM, nonce(12) + ciphertext + auth_tag(16)
GcmCandidate(data, key) ==
    LET Loads(decrypted_json) ==
            IF ~decrypted_json.ok THEN decrypted_json ELSE DecodeJson(decrypted_json.val)
        Decrypt(nonce, auth_tag, ciphertext) ==
            Loads(AesGcmDecrypt(key, nonce, auth_tag, ciphertext))
    IN  Decrypt(Take(data, GcmNonceLen),
                Drop(data, Len(data) - GcmTagLen),
                SubSeq(data, GcmNonceLen + 1, Len(data) - GcmTagLen))

\* an unpadding that drops a whole block whatever the last byte says
RemovePaddingWholeBlock(padded_data, padding_length) ==
    IF Len(padded_data) <= 16 THEN <<>> ELSE Take(padded_data, Len(padded_data) - 16)

\* padded_data[:-padding_length]
RemovePadding(padded_data, padding_length) ==
    IF padding_length = 0 \/ padding_length >= Len(padded_data) THEN <<>>
    ELSE Take(padded_data, Len(padded_data) - padding_length)

\* Method 3: AES-CBC, iv(16) + ciphertext, the padding length read from the last byte
CbcCandidate(data, key) ==
    LET Unpad(padded_data) ==
            IF ~padded_data.ok THEN padded_data
            ELSE DecodeJson(RemovePadding(padded_data.val,
                                          padded_data.val[Len(padded_data.val)]))
        Decrypt(iv, encrypted_content) == Unpad(AesCbcDecrypt(key, iv, encrypted_content))
    IN  Decrypt(Take(data, CbcIvLen), Drop(data, CbcIvLen))

(***************************************************************************)
(* str() of a decrypted value, for the "DECRYPTED: n chars" summary.       *)
(***************************************************************************)
\* repr of a str without backslashes or control characters
StrRepr(chars) ==
    IF \E i \in 1..Len(chars) : chars[i] = 39
    THEN <<34>> \o chars \o <<34>>
    ELSE <<39>> \o chars \o <<39>>

RECURSIVE PyRepr(_)
RECURSIVE ReprItems(_, _)
RECURSIVE ReprElems(_, _)

PyRepr(v) ==
    IF v.t = "dict" THEN <<123>> \o ReprItems(v.items, 1) \o <<125>>
    ELSE IF v.t = "list" THEN <<91>> \o ReprElems(v.elems, 1) \o <<93>>
    ELSE IF v.t = "str" THEN StrRepr(v.chars)
    ELSE IF v.t = "int" THEN (IF v.n < 0 THEN <<45>> \o IntToStr(0 - v.n) ELSE IntToStr(v.n))
    ELSE IF v.t = "float" THEN v.text
    ELSE IF v.t = "bool" THEN (IF v.b THEN <<84, 114, 117, 101>> ELSE <<70, 97, 108,
          115, 101>>)
    ELSE <<78, 111, 110, 101>>

ReprItems(items, i) ==
    IF i > Len(items) THEN <<>>
    ELSE (IF i > 1 THEN <<44, 32>> ELSE <<>>)
         \o StrRepr(items[i].k) \o <<58, 32>> \o PyRepr(items[i].v)
         \o ReprItems(items, i + 1)

ReprElems(elems, i) ==
    IF i > Len(elems) THEN <<>>
    ELSE (IF i > 1 THEN <<44, 32>> ELSE <<>>) \o PyRepr(elems[i]) \o ReprElems(elems,
          i + 1)

\* str(v)
PyStr(v) == IF v.t = "str" THEN v.chars ELSE PyRepr(v)

\* type(v).__name__
PyTypeName(v) ==
    IF v.t = "dict" THEN <<100, 105, 99, 116>>
    ELSE IF v.t = "list" THEN <<108, 105, 115, 116>>
    ELSE IF v.t = "str" THEN <<115, 116, 114>>
    ELSE IF v.t = "int" THEN <<105, 110, 116>>
    ELSE IF v.t = "float" THEN <<102, 108, 111, 97, 116>>
    ELSE IF v.t = "bool" THEN <<98, 111, 111, 108>>
    ELSE <<78, 111, 110, 101, 84, 121, 112, 101>>

\* 'locationData'
LocationDataKey == <<108, 111, 99, 97, 116, 105, 111, 110, 68, 97, 116, 97>>

\* needle in v: a key of a dict, an element of a list, a substring of a str;
\* TypeError for a value that is not iterable
PyContains(v, needle) ==
    IF v.t = "dict" THEN Ok(DictHas(v.items, needle))
    ELSE IF v.t = "list" THEN Ok(\E i \in 1..Len(v.elems) : v.elems[i] = JStr(needle))
    ELSE IF v.t = "str"
    THEN Ok(\E i \in 0..(Len(v.chars) - Len(needle)) :
               SubSeq(v.chars, i + 1, i + Len(needle)) = needle)
    ELSE Raise(<<97, 114, 103, 117, 109, 101, 110, 116, 32, 111, 102, 32, 116, 121,
          112, 101, 32, 39>> \o PyTypeName(v) \o <<39, 32, 105, 115, 32, 110, 111, 116,
          32, 105, 116, 101, 114, 97, 98, 108, 101>>)

(***************************************************************************)
(* AutomatedDecryptionPipeline._extract_location_points                    *)
(***************************************************************************)
\* loc.get(key, '')
LocGet(loc, key) == IF DictHas(loc.items, key) THEN DictGet(loc.items,
      key) ELSE JStr(<<>>)

LocationPoint(loc, response_id, i) ==
    [response_id |-> response_id,
     point_sequence |-> i,
     timestamp |-> LocGet(loc, <<116, 105, 109, 101, 115, 116, 97, 109, 112>>),
     latitude |-> LocGet(loc, <<108, 97, 116, 105, 116, 117, 100, 101>>),
     longitude |-> LocGet(loc, <<108, 111, 110, 103, 105, 116, 117, 100, 101>>),
     accuracy |-> LocGet(loc, <<97, 99, 99, 117, 114, 97, 99, 121>>),
     altitude |-> LocGet(loc, <<97, 108, 116, 105, 116, 117, 100, 101>>),
     speed |-> LocGet(loc, <<115, 112, 101, 101, 100>>),
     heading |-> LocGet(loc, <<104, 101, 97, 100, 105, 110, 103>>),
     provider |-> LocGet(loc, <<112, 114, 111, 118, 105, 100, 101, 114>>),
     battery_level |-> LocGet(loc, <<98, 97, 116, 116, 101, 114, 121, 76, 101, 118,
           101, 108>>),
     is_mock |-> LocGet(loc, <<105, 115, 77, 111, 99, 107>>)]

RECURSIVE LocationPointsFromRenumbered(_, _, _)
\* a variant of LocationPointsFrom that numbers the points it emits 1, 2, ...
\* whatever their positions in the list
LocationPointsFromRenumbered(elems, response_id, i) ==
    IF i > Len(elems) THEN <<>>
    ELSE (IF elems[i].t = "dict"
          THEN <<LocationPoint(elems[i], response_id,
                               Cardinality({p \in 1..i : elems[p].t = "dict"}))>>
          ELSE <<>>)
         \o LocationPointsFromRenumbered(elems, response_id, i + 1)

RECURSIVE LocationPointsFrom(_, _, _)
\* the loop over enumerate(decrypted_data['locationData']) from the 1-based i
LocationPointsFrom(elems, response_id, i) ==
    IF i > Len(elems) THEN <<>>
    ELSE (IF elems[i].t = "dict" THEN <<LocationPoint(elems[i], response_id,
          i)>> ELSE <<>>)
         \o LocationPointsFrom(elems, response_id, i + 1)

\* a value that is not a dict makes the body raise (or skip), and the except
\* clause returns the empty list
ExtractLocationPoints(decrypted_data, response_id) ==
    IF /\ decrypted_data.t = "dict"
       /\ DictHas(decrypted_data.items, LocationDataKey)
       /\ DictGet(decrypted_data.items, LocationDataKey).t = "list"
    THEN LocationPointsFrom(DictGet(decrypted_data.items, LocationDataKey).elems,
                            response_id, 1)
    ELSE <<>>

(***************************************************************************)
(* AutomatedDecryptionPipeline._process_survey_group: the pieces of one    *)
(* iteration of the loop over the rows.                                    *)
(***************************************************************************)
\* '{"encryptedData"'
DirectPrefix == <<123, 34, 101, 110, 99, 114, 121, 112, 116, 101, 100, 68, 97, 116, 97,
      34>>

\* 'eyJ'
Base64Prefix == <<101, 121, 74>>

ErrorTextMax == 100

PreviewLen == 50

KeyDecryptionFailed == JStr(<<75, 69, 89, 95, 68, 69, 67, 82, 89, 80, 84, 73, 79, 78,
      95, 70, 65, 73, 76, 69, 68>>)

DecryptionFailed == JStr(<<68, 69, 67, 82, 89, 80, 84, 73, 79, 78, 95, 70, 65, 73, 76,
      69, 68>>)

\* a variant of ProcessingError that keeps the whole message
ProcessingErrorUntruncated(msg) == JStr(<<80, 82, 79, 67, 69, 83, 83, 73, 78, 71, 95,
      69, 82, 82, 79, 82, 58, 32>> \o msg)

\* f"PROCESSING_ERROR: {str(e)[:100]}"
ProcessingError(msg) == JStr(<<80, 82, 79, 67, 69, 83, 83, 73, 78, 71, 95, 69, 82, 82,
      79, 82, 58, 32>> \o Take(msg, ErrorTextMax))

\* f"NON_ENCRYPTED: {encrypted_data[:50]}..."
NonEncrypted(chars) == JStr(<<78, 79, 78, 95, 69, 78, 67, 82, 89, 80, 84, 69, 68, 58,
      32>> \o Take(chars, PreviewLen) \o <<46, 46, 46>>)

\* f"DECRYPTED: {len(str(decrypted_data))} chars"
DecryptedSummary(decrypted_data) ==
    JStr(<<68, 69, 67, 82, 89, 80, 84, 69, 68, 58,
          32>> \o IntToStr(Len(PyStr(decrypted_data))) \o <<32, 99, 104, 97, 114, 115>>)

\* the test that guards the decryption branch: a str with one of the prefixes
HasEnvelopePrefix(field) ==
    /\ field.t = "str"
    /\ StartsWith(field.chars, DirectPrefix) \/ StartsWith(field.chars, Base64Prefix)

\* a variant of PackageFormat that takes every field for the standard JSON format
PackageFormatJsonOnly(chars) == "json"

\* the if / elif / else on the format of the field: "json" for the standard
\* JSON format, "base64" for base64 encoded JSON, "none" for the else branch
PackageFormat(chars) ==
    IF StartsWith(chars, DirectPrefix) THEN "json"
    ELSE IF StartsWith(chars, Base64Prefix) THEN "base64"
    ELSE "none"

\* a variant of ParsePackage that trusts the label: it rejects an envelope
\* whose algorithm is not the AES-256-GCM one
ParsePackageCheckingLabel(chars) ==
    LET Checked(package) ==
            IF package.ok /\ DictGet(package.val.items, <<97, 108, 103, 111, 114, 105,
                  116, 104, 109>>)
                              # JStr(<<65, 69, 83, 45, 50, 53, 54, 45, 71, 67, 77, 32,
                                    43, 32, 82, 83, 65, 45, 80, 75, 67, 83, 49>>)
            THEN Raise(<<117, 110, 115, 117, 112, 112, 111, 114, 116, 101, 100, 32, 97,
                  108, 103, 111, 114, 105, 116, 104, 109>>)
            ELSE package
        Loads(decoded_json) ==
            IF decoded_json.ok THEN JsonLoads(decoded_json.val) ELSE decoded_json
        Decode(decoded) == IF decoded.ok THEN Utf8Decode(decoded.val) ELSE decoded
    IN  Checked(Loads(IF PackageFormat(chars) = "json" THEN Ok(chars)
                      ELSE Decode(B64Decode(chars))))

\* encrypted_package for a field of format "json" or "base64"
ParsePackage(chars) ==
    LET Loads(decoded_json) ==
            IF decoded_json.ok THEN JsonLoads(decoded_json.val) ELSE decoded_json
        Decode(decoded) == IF decoded.ok THEN Utf8Decode(decoded.val) ELSE decoded
    IN  Loads(IF PackageFormat(chars) = "json" THEN Ok(chars)
              ELSE Decode(B64Decode(chars)))

\* a hash column that is computed anew whatever the row holds
WithHashOverwriting(row) ==
    IF row.encrypted_data.t = "str" /\ Len(row.encrypted_data.chars) > 0
    THEN [row EXCEPT !.encrypted_data_hash = Sha256Hex(row.encrypted_data.chars)]
    ELSE row

\* decrypted_response.setdefault('encrypted_data_hash', sha256(...).hexdigest())
\* for a non-empty str field
WithHash(row) ==
    IF /\ row.encrypted_data.t = "str"
       /\ Len(row.encrypted_data.chars) > 0
       /\ row.encrypted_data_hash = Absent
    THEN [row EXCEPT !.encrypted_data_hash = Sha256Hex(row.encrypted_data.chars)]
    ELSE row

RECURSIVE StoreDecryptedFields(_, _, _)
\* for key, value in decrypted_data.items(): every key but 'locationData'
\* becomes the column decrypted_<key>
StoreDecryptedFields(columns, items, i) ==
    IF i > Len(items) THEN columns
    ELSE StoreDecryptedFields(
             IF items[i].k # LocationDataKey
             THEN DictSet(columns, items[i].k, items[i].v) ELSE columns,
             items, i + 1)

(***************************************************************************)
(* The inputs: rows of the survey CSV whose encrypted_data field was       *)
(* produced the way the clients and EncryptionTester produce it.           *)
(***************************************************************************)
\* EncryptionTester._encrypt_xor
EncryptXor(data, key) == [i \in 1..Len(data) |-> BitXor(data[i], KeyByte(key, i - 1))]

\* PKCS7(128).padder()
Pkcs7Pad(data) ==
    LET n == 16 - (Len(data) % 16) IN data \o [i \in 1..n |-> n]

\* EncryptionTester._encrypt_aes_cbc with the IV given
EncryptAesCbc(data, key, iv) == iv \o CbcEncryptBlocks(key, iv, Pkcs7Pad(data))

\* the AES-GCM layout: nonce(12) + ciphertext + auth_tag(16)
EncryptAesGcm(data, key, nonce) ==
    LET ciphertext == XorSeq(data, GcmKeyStream(key, nonce, Len(data)))
    IN  nonce \o ciphertext \o GcmTag(key, nonce, ciphertext)

\* json.dumps of the encrypted package, separators (',', ':')
PackageJson(encrypted_data_b64, encrypted_key_b64, algorithm) ==
    <<123, 34, 101, 110, 99, 114, 121, 112, 116, 101, 100, 68, 97, 116, 97, 34, 58,
          34>> \o encrypted_data_b64
    \o <<34, 44, 34, 101, 110, 99, 114, 121, 112, 116, 101, 100, 75, 101, 121, 34, 58,
          34>> \o encrypted_key_b64
    \o <<34, 44, 34, 97, 108, 103, 111, 114, 105, 116, 104, 109, 34, 58,
          34>> \o algorithm \o <<34, 125>>

\* the key pair whose private key the pipeline has loaded, and another one
LoadedKeyPair == [kid |-> 7]

OtherKeyPair == [kid |-> 9]

\* a 16-byte AES key; bytes above 127 make it invalid as UTF-8 text
AesKey == [i \in 1..16 |-> (37 * i + 150) % 256]

Iv == [i \in 1..16 |-> (11 * i + 3) % 256]

Nonce == [i \in 1..12 |-> (5 * i + 90) % 256]

\* {"uid":"a","locationData":[{"latitude":1},{"latitude":2}]}
Payload == <<123, 34, 117, 105, 100, 34, 58, 34, 97, 34, 44, 34, 108, 111, 99, 97, 116,
      105, 111, 110, 68, 97, 116, 97, 34, 58, 91, 123, 34, 108, 97, 116, 105, 116, 117,
      100, 101, 34, 58, 49, 125, 44, 123, 34, 108, 97, 116, 105, 116, 117, 100, 101,
      34, 58, 50, 125, 93, 125>>

\* bytes that are no ciphertext of any scheme: 48 of them, and 20 of them
Garbage48 == [i \in 1..48 |-> (29 * i + 131) % 256]

Garbage20 == [i \in 1..20 |-> (29 * i + 131) % 256]

\* the key wrapped as the mobile client does: base64 text of the key
KeyOaepB64 == B64Encode(RSAEncrypt(LoadedKeyPair, B64Encode(AesKey), OAEP))

KeyPkcsB64 == B64Encode(RSAEncrypt(LoadedKeyPair, B64Encode(AesKey), PKCS1v15))

\* the key wrapped as raw bytes (EncryptionTester.encrypt_location_data, and
\* the archive format)
KeyOaepRaw == B64Encode(RSAEncrypt(LoadedKeyPair, AesKey, OAEP))

KeyPkcsRaw == B64Encode(RSAEncrypt(LoadedKeyPair, AesKey, PKCS1v15))

\* a wrapped text that is no base64 text: 'abcde' has five data characters
KeyOaepBadB64 == B64Encode(RSAEncrypt(LoadedKeyPair, <<97, 98, 99, 100, 101>>, OAEP))

\* the key wrapped for a key pair the pipeline does not hold
KeyOther == B64Encode(RSAEncrypt(OtherKeyPair, B64Encode(AesKey), OAEP))

LabelGcm == <<65, 69, 83, 45, 50, 53, 54, 45, 71, 67, 77, 32, 43, 32, 82, 83, 65, 45,
      80, 75, 67, 83, 49>>

LabelXor == <<88, 79, 82>>

DataXor == B64Encode(EncryptXor(Payload, AesKey))

DataGcm == B64Encode(EncryptAesGcm(Payload, AesKey, Nonce))

DataCbc == B64Encode(EncryptAesCbc(Payload, AesKey, Iv))

\* payloads that are base64 text of bytes no scheme produced
DataGarbage == B64Encode(Garbage48)

DataShortGarbage == B64Encode(Garbage20)

\* one row of the DataFrame (row.to_dict()); decrypted_columns holds the
\* decrypted_<key> columns
Row(id, field) ==
    [ResponseId |-> JStr(id), encrypted_data |-> field,
     encrypted_data_hash |-> Absent, decrypted_columns |-> <<>>]

RowXorOaep == Row(<<82, 95, 120, 111, 114>>, JStr(PackageJson(DataXor, KeyOaepB64,
      LabelGcm)))

RowXorOaepLabelled == Row(<<82, 95, 120, 111, 114>>, JStr(PackageJson(DataXor,
      KeyOaepB64, LabelXor)))

RowXorBase64 == Row(<<82, 95, 98, 54, 52>>, JStr(B64Encode(PackageJson(DataXor,
      KeyOaepB64, LabelGcm))))

RowGcm == Row(<<82, 95, 103, 99, 109>>, JStr(PackageJson(DataGcm, KeyOaepB64,
      LabelGcm)))

RowCbc == Row(<<82, 95, 99, 98, 99>>, JStr(PackageJson(DataCbc, KeyOaepB64, LabelGcm)))

RowPkcsB64Key == Row(<<82, 95, 112, 107, 99, 115>>, JStr(PackageJson(DataXor,
      KeyPkcsB64, LabelGcm)))

RowPkcsRawKey == Row(<<82, 95, 112, 107, 99, 115, 95, 114, 97, 119>>,
      JStr(PackageJson(DataXor, KeyPkcsRaw, LabelGcm)))

RowOaepRawKey == Row(<<82, 95, 111, 97, 101, 112, 95, 114, 97, 119>>,
      JStr(PackageJson(DataXor, KeyOaepRaw, LabelGcm)))

RowOtherKey == Row(<<82, 95, 111, 116, 104, 101, 114>>, JStr(PackageJson(DataXor,
      KeyOther, LabelGcm)))

RowGarbage == Row(<<82, 95, 103, 97, 114, 98, 97, 103, 101>>,
      JStr(PackageJson(DataGarbage, KeyOaepB64, LabelGcm)))

RowGarbageLabelled == Row(<<82, 95, 103, 97, 114, 98, 97, 103, 101>>,
      JStr(PackageJson(DataGarbage, KeyOaepB64, LabelXor)))

RowShortGarbage ==
    Row(<<82, 95, 115, 104, 111, 114, 116>>, JStr(PackageJson(DataShortGarbage,
          KeyOaepB64, LabelGcm)))

RowOaepBadB64Key == Row(<<82, 95, 111, 97, 101, 112, 95, 98, 97, 100>>,
      JStr(PackageJson(DataXor, KeyOaepBadB64, LabelGcm)))

\* a field cut off after the first key
RowTruncatedJson == Row(<<82, 95, 99, 117, 116>>, JStr(<<123, 34, 101, 110, 99, 114,
      121, 112, 116, 101, 100, 68, 97, 116, 97, 34, 58>>))

\* a base64 field with 1001 data characters
RowBadBase64 == Row(<<82, 95, 98, 97, 100, 54, 52>>,
      JStr(Base64Prefix \o [i \in 1..998 |-> 65]))

\* {"encryptedData":"not-base64!!"}
RowMissingKey == Row(<<82, 95, 110, 111, 107, 101, 121>>, JStr(<<123, 34, 101, 110, 99,
      114, 121, 112, 116, 101, 100, 68, 97, 116, 97, 34, 58, 34, 110, 111, 116, 45, 98,
      97, 115, 101, 54, 52, 33, 33, 34, 125>>))

RowMock == Row(<<82, 95, 109, 111, 99, 107>>, JStr(<<109, 111, 99, 107, 95, 108, 111,
      99, 97, 116, 105, 111, 110, 95, 100, 97, 116, 97>>))

RowEmptyCell == Row(<<82, 95, 110, 97, 110>>, PyNaN)

Rows ==
    {RowXorOaep, RowXorOaepLabelled, RowXorBase64, RowGcm, RowCbc, RowPkcsB64Key,
     RowPkcsRawKey, RowOaepRawKey, RowOaepBadB64Key, RowOtherKey, RowGarbage,
     RowGarbageLabelled, RowShortGarbage, RowTruncatedJson, RowBadBase64,
     RowMissingKey, RowMock, RowEmptyCell}

\* the survey_type_configs entries: 'biweekly' has location data, the others not
SurveyConfigs ==
    {[location_column |-> "encrypted_data", output_prefix |-> "biweekly_decrypted"],
     [location_column |-> "None", output_prefix |-> "initial_decrypted"]}

\* the most rows a group holds
MaxBatch == 2

(***************************************************************************)
(* The state: one run of _process_survey_group over the rows of a group.   *)
(***************************************************************************)
VARIABLES
    private_key,          \* self.private_key, loaded before any row is read
    survey_config,        \* the configuration of the group's survey type
    group_df,             \* the rows the loop has taken so far, in order
    pc,                   \* where the run is
    decrypted_response,   \* the output row of the current iteration
    encrypted_data_b64,   \* encrypted_package.get('encryptedData')
    encrypted_key_b64,    \* encrypted_package.get('encryptedKey')
    encrypted_key,        \* decrypt_aes_key: the base64-decoded wrapped key
    aes_key,              \* what decrypt_aes_key returned
    encrypted_data,       \* decrypt_location_data: the base64-decoded payload
    decrypted_data,       \* what decrypt_location_data returned
    attempts,             \* the candidates tried for the current row, in order
    attempt_log,          \* attempts of every finished row, in row order
    decrypted_responses,  \* the output rows
    location_data_points, \* the location points
    result,               \* the (rows, points) pair the method returns
    results,              \* self.results of the pipeline object
    exit_code,            \* what main returned
    csv_file,             \* process_csv_file: its locals
    download,             \* download_buffered_surveys.main: its locals and the CSV
    call,                 \* decrypt_survey_data.decrypt_data: the frame of one call
    runner,               \* pipeline_runner: the PipelineRunner and the locals of run
    process               \* download_qualtrics_data: the process of the download step

vars ==
    <<private_key, survey_config, group_df, pc, decrypted_response,
      encrypted_data_b64, encrypted_key_b64, encrypted_key, aes_key,
      encrypted_data, decrypted_data, attempts, attempt_log,
      decrypted_responses, location_data_points, result, results, exit_code,
      csv_file, download, call, runner, process>>

\* the state of pipeline_runner and of the process of its download step
runner_vars == <<runner, process>>

\* a local variable that holds nothing yet
Unset == [t |-> "unset"]

Attempt(method, ok) == [method |-> method, ok |-> ok]

\* self.results as __init__ leaves it
NewResults ==
    [processed_files |-> <<>>, decrypted_responses |-> 0, location_points |-> 0,
     errors |-> <<>>]

Init ==
    /\ private_key = LoadedKeyPair
    /\ survey_config \in SurveyConfigs
    /\ group_df = <<>>
    /\ pc = "for_row"
    /\ decrypted_response = Unset
    /\ encrypted_data_b64 = Unset
    /\ encrypted_key_b64 = Unset
    /\ encrypted_key = <<>>
    /\ aes_key = Unset
    /\ encrypted_data = <<>>
    /\ decrypted_data = Unset
    /\ attempts = <<>>
    /\ attempt_log = <<>>
    /\ decrypted_responses = <<>>
    /\ location_data_points = <<>>
    /\ result = Unset
    /\ results = NewResults
    /\ runner = Unset
    /\ process = Unset
    /\ exit_code = Unset
    /\ csv_file = Unset
    /\ download = Unset
    /\ call = Unset

\* the end of an iteration without a call of decrypt_aes_key: the row goes to
\* the append with the field given
ToAppend(row) ==
    /\ decrypted_response' = row
    /\ pc' = "append"
    /\ UNCHANGED <<encrypted_data_b64, encrypted_key_b64>>

\* The head of an iteration: the copy of the row, the hash, the test of the
\* field and of its prefix, the parse of the package and the extraction of
\* its two components.
ResolveEnvelope(row) ==
    /\ pc = "for_row"
    /\ Len(group_df) < MaxBatch
    /\ group_df' = Append(group_df, row)
    /\ LET field == row.encrypted_data
           copy == WithHash(row)
       IN  IF ~PyTruthy(field) THEN ToAppend(copy)
           ELSE IF ~HasEnvelopePrefix(field)
           THEN ToAppend(IF field.t = "str" /\ Len(field.chars) > 0
                         THEN [copy EXCEPT !.encrypted_data = NonEncrypted(field.chars)]
                         ELSE copy)
           ELSE IF PackageFormat(field.chars) = "none"
           THEN \* continue: no output row
                /\ pc' = "for_row"
                /\ UNCHANGED <<decrypted_response, encrypted_data_b64,
                      encrypted_key_b64>>
           ELSE \E encrypted_package \in {ParsePackage(field.chars)} :
                IF ~encrypted_package.ok
                THEN ToAppend([copy EXCEPT
                                  !.encrypted_data = ProcessingError(encrypted_package.err)])
                ELSE LET data_b64 == DictGet(encrypted_package.val.items,
                                             <<101, 110, 99, 114, 121, 112, 116, 101,
                                                   100, 68, 97, 116, 97>>)
                         key_b64 == DictGet(encrypted_package.val.items,
                                            <<101, 110, 99, 114, 121, 112, 116, 101,
                                                  100, 75, 101, 121>>)
                     IN  IF PyTruthy(data_b64) /\ PyTruthy(key_b64)
                         THEN /\ decrypted_response' = copy
                              /\ encrypted_data_b64' = data_b64
                              /\ encrypted_key_b64' = key_b64
                              /\ pc' = "decrypt_aes_key"
                         ELSE ToAppend(copy)
    /\ UNCHANGED <<runner_vars, results, exit_code, csv_file, download, call,
                   private_key, survey_config,
                   encrypted_key, aes_key, encrypted_data,
                   decrypted_data, attempts, attempt_log, decrypted_responses,
                   location_data_points, result>>

\* a variant of ReturnAesKey that caches the key unwrapped from the first
\* record of the batch and hands it out for every record
ReturnAesKeyOfFirstRecord(key) ==
    LET Unwrapped(package) ==
            IF ~package.ok \/ package.val.t # "dict" THEN {}
            ELSE LET wrapped == B64DecodeValue(DictGet(package.val.items,
                                    <<101, 110, 99, 114, 121, 112, 116, 101, 100, 75,
                                          101, 121>>))
                 IN  IF ~wrapped.ok THEN {}
                     ELSE {KeyFromDecrypted(d.val) :
                             d \in {x \in RSADecrypt(private_key, wrapped.val, OAEP) :
                                       x.ok}}
        cached == IF HasEnvelopePrefix(group_df[1].encrypted_data)
                  THEN {k \in Unwrapped(ParsePackage(group_df[1].encrypted_data.chars)) :
                          k.ok}
                  ELSE {}
    IN  /\ aes_key' = IF cached # {} THEN PyBytes((CHOOSE k \in cached : TRUE).val)
                      ELSE key
        /\ pc' = "aes_key_returned"

\* decrypt_aes_key returns key (a bytes value or None) to the batch loop
ReturnAesKey(key) ==
    /\ aes_key' = key
    /\ pc' = "aes_key_returned"

\* a variant of DecryptAesKeyOAEP that takes the OAEP output itself as the key
\* when it is no base64 text
DecryptAesKeyOAEPRawFallback ==
    /\ pc = "decrypt_aes_key"
    /\ \E decoded \in {B64DecodeValue(encrypted_key_b64)} :
       IF ~decoded.ok
       THEN /\ ReturnAesKey(JNone)
            /\ UNCHANGED <<encrypted_key, attempts>>
       ELSE \E decrypted \in RSADecrypt(private_key, decoded.val, OAEP) :
               \E key \in {IF decrypted.ok /\ KeyFromDecrypted(decrypted.val).ok
                           THEN KeyFromDecrypted(decrypted.val)
                           ELSE decrypted} :
                   /\ attempts' = Append(attempts, Attempt(OAEP, key.ok))
                   /\ encrypted_key' = decoded.val
                   /\ IF key.ok THEN ReturnAesKey(PyBytes(key.val))
                      ELSE /\ pc' = "pkcs1v15"
                           /\ UNCHANGED aes_key
    /\ UNCHANGED <<runner_vars, results, exit_code, csv_file, download, call,
                   private_key, survey_config,
                   group_df, decrypted_response,
                   encrypted_data_b64, encrypted_key_b64, encrypted_data,
                   decrypted_data, attempt_log, decrypted_responses,
                   location_data_points, result>>

\* decrypt_aes_key, first part: the base64 decode of the wrapped key and the
\* OAEP attempt with its decode of the key text.
DecryptAesKeyOAEP ==
    /\ pc = "decrypt_aes_key"
    /\ \E decoded \in {B64DecodeValue(encrypted_key_b64)} :
       IF ~decoded.ok
       THEN /\ ReturnAesKey(JNone)
            /\ UNCHANGED <<encrypted_key, attempts>>
       ELSE \E decrypted \in RSADecrypt(private_key, decoded.val, OAEP) :
               \E key \in {IF decrypted.ok THEN KeyFromDecrypted(decrypted.val)
                           ELSE decrypted} :
                   /\ attempts' = Append(attempts, Attempt(OAEP, key.ok))
                   /\ encrypted_key' = decoded.val
                   /\ IF key.ok THEN ReturnAesKey(PyBytes(key.val))
                      ELSE /\ pc' = "pkcs1v15"
                           /\ UNCHANGED aes_key
    /\ UNCHANGED <<runner_vars, results, exit_code, csv_file, download, call,
                   private_key, survey_config,
                   group_df, decrypted_response,
                   encrypted_data_b64, encrypted_key_b64, encrypted_data,
                   decrypted_data, attempt_log, decrypted_responses,
                   location_data_points, result>>

\* decrypt_aes_key, the except branch: the PKCS1v15 attempt; a failure in it
\* reaches the outer except, which returns None.
DecryptAesKeyPKCS1v15 ==
    /\ pc = "pkcs1v15"
    /\ \E decrypted \in RSADecrypt(private_key, encrypted_key, PKCS1v15) :
          \E key \in {IF decrypted.ok THEN KeyFromDecrypted(decrypted.val)
                      ELSE decrypted} :
              /\ attempts' = Append(attempts, Attempt(PKCS1v15, key.ok))
              /\ ReturnAesKey(IF key.ok THEN PyBytes(key.val) ELSE JNone)
    /\ UNCHANGED <<runner_vars, results, exit_code, csv_file, download, call,
                   private_key, survey_config,
                   group_df, decrypted_response,
                   encrypted_data_b64, encrypted_key_b64, encrypted_key, encrypted_data,
                   decrypted_data, attempt_log, decrypted_responses,
                   location_data_points, result>>

\* a variant of AesKeyReturned without the else branch: a record without a
\* key keeps its field
AesKeyReturnedSilently ==
    /\ pc = "aes_key_returned"
    /\ pc' = IF PyTruthy(aes_key) THEN "decrypt_location_data" ELSE "append"
    /\ UNCHANGED <<runner_vars, results, exit_code, csv_file, download, call,
                   private_key, survey_config,
                   group_df, decrypted_response,
                   encrypted_data_b64, encrypted_key_b64, encrypted_key, aes_key,
                   encrypted_data, decrypted_data, attempts, attempt_log,
                   decrypted_responses, location_data_points, result>>

\* The batch loop after decrypt_aes_key: `if aes_key:` and its else branch.
AesKeyReturned ==
    /\ pc = "aes_key_returned"
    /\ IF PyTruthy(aes_key)
       THEN /\ pc' = "decrypt_location_data"
            /\ UNCHANGED decrypted_response
       ELSE /\ pc' = "append"
            /\ decrypted_response' =
                   [decrypted_response EXCEPT !.encrypted_data = KeyDecryptionFailed]
    /\ UNCHANGED <<runner_vars, results, exit_code, csv_file, download, call,
                   private_key, survey_config,
                   group_df, encrypted_data_b64,
                   encrypted_key_b64, encrypted_key, aes_key, encrypted_data,
                   decrypted_data, attempts, attempt_log, decrypted_responses,
                   location_data_points, result>>

\* decrypt_location_data returns value (a parsed JSON value or None)
ReturnDecryptedData(value) ==
    /\ decrypted_data' = value
    /\ pc' = "data_returned"

\* a variant of DecryptXor that takes an empty or falsy XOR value for a
\* failure and goes on to the next candidate
DecryptXorUntilTruthy ==
    /\ pc = "decrypt_location_data"
    /\ \E decoded \in {B64DecodeValue(encrypted_data_b64)} :
       IF ~decoded.ok
       THEN /\ ReturnDecryptedData(JNone)
            /\ UNCHANGED <<encrypted_data, attempts>>
       ELSE \E parsed \in {XorCandidate(decoded.val, aes_key.bytes)} :
            /\ attempts' = Append(attempts, Attempt("XOR", parsed.ok))
            /\ encrypted_data' = decoded.val
            /\ IF parsed.ok /\ PyTruthy(parsed.val) THEN ReturnDecryptedData(parsed.val)
               ELSE /\ pc' = "aes_gcm"
                    /\ UNCHANGED decrypted_data
    /\ UNCHANGED <<runner_vars, results, exit_code, csv_file, download, call,
                   private_key, survey_config,
                   group_df, decrypted_response,
                   encrypted_data_b64, encrypted_key_b64, encrypted_key, aes_key,
                   attempt_log, decrypted_responses, location_data_points, result>>

\* decrypt_location_data, first part: the base64 decode of the payload and
\* Method 1, the XOR candidate.
DecryptXor ==
    /\ pc = "decrypt_location_data"
    /\ \E decoded \in {B64DecodeValue(encrypted_data_b64)} :
       IF ~decoded.ok
       THEN /\ ReturnDecryptedData(JNone)
            /\ UNCHANGED <<encrypted_data, attempts>>
       ELSE \E parsed \in {XorCandidate(decoded.val, aes_key.bytes)} :
            /\ attempts' = Append(attempts, Attempt("XOR", parsed.ok))
            /\ encrypted_data' = decoded.val
            /\ IF parsed.ok THEN ReturnDecryptedData(parsed.val)
               ELSE /\ pc' = "aes_gcm"
                    /\ UNCHANGED decrypted_data
    /\ UNCHANGED <<runner_vars, results, exit_code, csv_file, download, call,
                   private_key, survey_config,
                   group_df, decrypted_response,
                   encrypted_data_b64, encrypted_key_b64, encrypted_key, aes_key,
                   attempt_log, decrypted_responses, location_data_points, result>>

\* a variant of DecryptGcm that goes on to AES-CBC after AES-GCM gave a result
DecryptGcmKeepGoing ==
    /\ pc = "aes_gcm"
    /\ pc' = "aes_cbc"
    /\ IF Len(encrypted_data) >= GcmMinLen
       THEN \E parsed \in {GcmCandidate(encrypted_data, aes_key.bytes)} :
            /\ attempts' = Append(attempts, Attempt("AES-GCM", parsed.ok))
            /\ decrypted_data' = IF parsed.ok THEN parsed.val ELSE decrypted_data
       ELSE UNCHANGED <<attempts, decrypted_data>>
    /\ UNCHANGED <<runner_vars, results, exit_code, csv_file, download, call,
                   private_key, survey_config,
                   group_df, decrypted_response,
                   encrypted_data_b64, encrypted_key_b64, encrypted_key, aes_key,
                   encrypted_data, attempt_log, decrypted_responses,
                   location_data_points, result>>

\* a variant of DecryptGcm without the length test: on a payload shorter than
\* nonce and tag the AES-GCM attempt is made, and fails
DecryptGcmAnyLength ==
    /\ pc = "aes_gcm"
    /\ \E parsed \in {IF Len(encrypted_data) >= GcmMinLen
                       THEN GcmCandidate(encrypted_data, aes_key.bytes)
                       ELSE Raise(<<>>)} :
            /\ attempts' = Append(attempts, Attempt("AES-GCM", parsed.ok))
            /\ IF parsed.ok THEN ReturnDecryptedData(parsed.val)
               ELSE /\ pc' = "aes_cbc"
                    /\ UNCHANGED decrypted_data
    /\ UNCHANGED <<runner_vars, results, exit_code, csv_file, download, call,
                   private_key, survey_config,
                   group_df, decrypted_response,
                   encrypted_data_b64, encrypted_key_b64, encrypted_key, aes_key,
                   encrypted_data, attempt_log, decrypted_responses,
                   location_data_points, result>>

\* decrypt_location_data, Method 2: AES-GCM when the payload has 28 bytes or more.
DecryptGcm ==
    /\ pc = "aes_gcm"
    /\ IF Len(encrypted_data) >= GcmMinLen
       THEN \E parsed \in {GcmCandidate(encrypted_data, aes_key.bytes)} :
            /\ attempts' = Append(attempts, Attempt("AES-GCM", parsed.ok))
            /\ IF parsed.ok THEN ReturnDecryptedData(parsed.val)
               ELSE /\ pc' = "aes_cbc"
                    /\ UNCHANGED decrypted_data
       ELSE /\ pc' = "aes_cbc"
            /\ UNCHANGED <<attempts, decrypted_data>>
    /\ UNCHANGED <<runner_vars, results, exit_code, csv_file, download, call,
                   private_key, survey_config,
                   group_df, decrypted_response,
                   encrypted_data_b64, encrypted_key_b64, encrypted_key, aes_key,
                   encrypted_data, attempt_log, decrypted_responses,
                   location_data_points, result>>

\* decrypt_location_data, Method 3: AES-CBC when the payload has more than 16
\* bytes; past it the function ends and returns None.
DecryptCbc ==
    /\ pc = "aes_cbc"
    /\ IF Len(encrypted_data) > CbcIvLen
       THEN \E parsed \in {CbcCandidate(encrypted_data, aes_key.bytes)} :
            /\ attempts' = Append(attempts, Attempt("AES-CBC", parsed.ok))
            /\ ReturnDecryptedData(IF parsed.ok THEN parsed.val ELSE JNone)
       ELSE /\ ReturnDecryptedData(JNone)
            /\ UNCHANGED attempts
    /\ UNCHANGED <<runner_vars, results, exit_code, csv_file, download, call,
                   private_key, survey_config,
                   group_df, decrypted_response,
                   encrypted_data_b64, encrypted_key_b64, encrypted_key, aes_key,
                   encrypted_data, attempt_log, decrypted_responses,
                   location_data_points, result>>

\* a variant of DecryptedDataReturned in which a record that was not
\* decrypted ends the batch, as the outer except clause does
DecryptedDataReturnedAborting ==
    /\ pc = "data_returned"
    /\ IF ~PyTruthy(decrypted_data)
       THEN /\ pc' = "done"
            /\ result' = <<0, 0>>
            /\ UNCHANGED <<decrypted_response, location_data_points>>
       ELSE /\ pc' = "append"
            /\ decrypted_response' =
                   [decrypted_response EXCEPT
                       !.encrypted_data = DecryptedSummary(decrypted_data)]
            /\ UNCHANGED <<location_data_points, result>>
    /\ UNCHANGED <<runner_vars, results, exit_code, csv_file, download, call,
                   private_key, survey_config,
                   group_df, encrypted_data_b64,
                   encrypted_key_b64, encrypted_key, aes_key, encrypted_data,
                   decrypted_data, attempts, attempt_log, decrypted_responses>>

\* a variant of DecryptedDataReturned whose except clause leaves the field as
\* it is: a value that is no object keeps the summary
DecryptedDataReturnedKeepingSummary ==
    /\ pc = "data_returned"
    /\ pc' = "append"
    /\ IF ~PyTruthy(decrypted_data)
       THEN /\ decrypted_response' =
                   [decrypted_response EXCEPT !.encrypted_data = DecryptionFailed]
            /\ UNCHANGED location_data_points
       ELSE LET summary == [decrypted_response EXCEPT
                               !.encrypted_data = DecryptedSummary(decrypted_data)]
                wanted == survey_config.location_column = "encrypted_data"
                has == IF wanted THEN PyContains(decrypted_data, LocationDataKey)
                       ELSE Ok(FALSE)
                locations == IF has.ok /\ has.val
                             THEN ExtractLocationPoints(decrypted_data,
                                                        decrypted_response.ResponseId)
                             ELSE <<>>
            IN  /\ location_data_points' = location_data_points \o locations
                /\ decrypted_response' =
                       IF ~has.ok \/ decrypted_data.t # "dict" THEN summary
                       ELSE [summary EXCEPT !.decrypted_columns =
                                StoreDecryptedFields(@, decrypted_data.items, 1)]
    /\ UNCHANGED <<runner_vars, results, exit_code, csv_file, download, call,
                   private_key, survey_config,
                   group_df, encrypted_data_b64,
                   encrypted_key_b64, encrypted_key, aes_key, encrypted_data,
                   decrypted_data, attempts, attempt_log, decrypted_responses, result>>

\* The batch loop after decrypt_location_data: `if decrypted_data:` with the
\* summary, the location points and the decrypted_<key> columns, its else
\* branch, and the except clause around them.
DecryptedDataReturned ==
    /\ pc = "data_returned"
    /\ pc' = "append"
    /\ IF ~PyTruthy(decrypted_data)
       THEN /\ decrypted_response' =
                   [decrypted_response EXCEPT !.encrypted_data = DecryptionFailed]
            /\ UNCHANGED location_data_points
       ELSE LET summary == [decrypted_response EXCEPT
                               !.encrypted_data = DecryptedSummary(decrypted_data)]
                wanted == survey_config.location_column = "encrypted_data"
                has == IF wanted THEN PyContains(decrypted_data, LocationDataKey)
                       ELSE Ok(FALSE)
                locations == IF has.ok /\ has.val
                             THEN ExtractLocationPoints(decrypted_data,
                                                        decrypted_response.ResponseId)
                             ELSE <<>>
            IN  /\ location_data_points' = location_data_points \o locations
                /\ decrypted_response' =
                       IF ~has.ok
                       THEN [summary EXCEPT !.encrypted_data = ProcessingError(has.err)]
                       ELSE IF decrypted_data.t # "dict"
                       THEN [summary EXCEPT !.encrypted_data = ProcessingError(
                                <<39>> \o PyTypeName(decrypted_data)
                                \o <<39, 32, 111, 98, 106, 101, 99, 116, 32, 104, 97,
                                      115, 32, 110, 111, 32, 97, 116, 116, 114, 105,
                                      98, 117, 116, 101, 32, 39, 105, 116, 101, 109,
                                      115, 39>>)]
                       ELSE [summary EXCEPT !.decrypted_columns =
                                StoreDecryptedFields(@, decrypted_data.items, 1)]
    /\ UNCHANGED <<runner_vars, results, exit_code, csv_file, download, call,
                   private_key, survey_config,
                   group_df, encrypted_data_b64,
                   encrypted_key_b64, encrypted_key, aes_key, encrypted_data,
                   decrypted_data, attempts, attempt_log, decrypted_responses, result>>

\* a variant of AppendRow that skips the row of a record whose key or payload
\* was not decrypted
AppendRowUnlessFailed ==
    /\ pc = "append"
    /\ IF decrypted_response.encrypted_data \in {KeyDecryptionFailed, DecryptionFailed}
       THEN UNCHANGED <<decrypted_responses, attempt_log>>
       ELSE /\ decrypted_responses' = Append(decrypted_responses, decrypted_response)
            /\ attempt_log' = Append(attempt_log, attempts)
    /\ pc' = "for_row"
    /\ decrypted_response' = Unset
    /\ encrypted_data_b64' = Unset
    /\ encrypted_key_b64' = Unset
    /\ encrypted_key' = <<>>
    /\ aes_key' = Unset
    /\ encrypted_data' = <<>>
    /\ decrypted_data' = Unset
    /\ attempts' = <<>>
    /\ UNCHANGED <<runner_vars, results, exit_code, csv_file, download, call,
                   private_key, survey_config,
                   group_df, location_data_points, result>>

\* a variant of AppendRow that skips the row of a record whose field an
\* earlier record of the batch had too
AppendRowDeduplicating ==
    /\ pc = "append"
    /\ IF \E i \in 1..Len(decrypted_responses) :
              decrypted_responses[i].encrypted_data_hash
                  = decrypted_response.encrypted_data_hash
       THEN UNCHANGED <<decrypted_responses, attempt_log>>
       ELSE /\ decrypted_responses' = Append(decrypted_responses, decrypted_response)
            /\ attempt_log' = Append(attempt_log, attempts)
    /\ pc' = "for_row"
    /\ decrypted_response' = Unset
    /\ encrypted_data_b64' = Unset
    /\ encrypted_key_b64' = Unset
    /\ encrypted_key' = <<>>
    /\ aes_key' = Unset
    /\ encrypted_data' = <<>>
    /\ decrypted_data' = Unset
    /\ attempts' = <<>>
    /\ UNCHANGED <<runner_vars, results, exit_code, csv_file, download, call,
                   private_key, survey_config,
                   group_df, location_data_points, result>>

\* decrypted_responses.append(decrypted_response), the end of the iteration
AppendRow ==
    /\ pc = "append"
    /\ decrypted_responses' = Append(decrypted_responses, decrypted_response)
    /\ attempt_log' = Append(attempt_log, attempts)
    /\ pc' = "for_row"
    /\ decrypted_response' = Unset
    /\ encrypted_data_b64' = Unset
    /\ encrypted_key_b64' = Unset
    /\ encrypted_key' = <<>>
    /\ aes_key' = Unset
    /\ encrypted_data' = <<>>
    /\ decrypted_data' = Unset
    /\ attempts' = <<>>
    /\ UNCHANGED <<runner_vars, results, exit_code, csv_file, download, call,
                   private_key, survey_config,
                   group_df, location_data_points, result>>

\* The rows are exhausted: the outputs are saved and their sizes returned.
SaveOutputs ==
    /\ pc = "for_row"
    /\ result' = <<Len(decrypted_responses), Len(location_data_points)>>
    /\ pc' = "done"
    /\ UNCHANGED <<runner_vars, results, exit_code, csv_file, download, call,
                   private_key, survey_config,
                   group_df, decrypted_response,
                   encrypted_data_b64, encrypted_key_b64, encrypted_key, aes_key,
                   encrypted_data, decrypted_data, attempts, attempt_log,
                   decrypted_responses, location_data_points>>

Next ==
    \/ \E row \in Rows : ResolveEnvelope(row)
    \/ DecryptAesKeyOAEP
    \/ DecryptAesKeyPKCS1v15
    \/ AesKeyReturned
    \/ DecryptXor
    \/ DecryptGcm
    \/ DecryptCbc
    \/ DecryptedDataReturned
    \/ AppendRow
    \/ SaveOutputs

Spec == Init /\ [][Next]_vars

(***************************************************************************)
(* Properties.  A row being processed is the last row of group_df; the     *)
(* rows before it are finished, and row i of them has the output row       *)
(* decrypted_responses[i] and the attempts attempt_log[i].                 *)
(***************************************************************************)
\* the row of the iteration in progress
CurrentRow == group_df[Len(group_df)]

\* the candidates of decrypt_location_data, by position in the code
CandidateRank(method) ==
    IF method = "XOR" THEN 1 ELSE IF method = "AES-GCM" THEN 2 ELSE 3

\* the attempts of decrypt_location_data among the attempts of a row
DataAttempts(tried) ==
    SelectSeq(tried, LAMBDA a : a.method \in {"XOR", "AES-GCM", "AES-CBC"})

\* what a candidate gives on the payload and key of the current call
CandidateOutput(method) ==
    IF method = "XOR" THEN XorCandidate(encrypted_data, aes_key.bytes)
    ELSE IF method = "AES-GCM" THEN GcmCandidate(encrypted_data, aes_key.bytes)
    ELSE CbcCandidate(encrypted_data, aes_key.bytes)

\* C1: decrypt_location_data tries XOR, then AES-GCM, then AES-CBC: the
\* attempts of a call are in that order and start with XOR, an attempt is
\* followed by another only if it failed, AES-CBC comes after an AES-GCM
\* attempt unless the payload is too short for AES-GCM, and the call returns
\* the parsed output of the first candidate that gives valid UTF-8 JSON, or
\* None once every candidate the payload is long enough for has failed.
C1_CandidatesInOrder ==
    LET tried == DataAttempts(attempts)
        n == Len(tried)
    IN  /\ \A i \in 1..n : \A j \in (i + 1)..n :
              /\ CandidateRank(tried[i].method) < CandidateRank(tried[j].method)
              /\ ~tried[i].ok
        /\ n > 0 => tried[1].method = "XOR"
        /\ \A i \in 1..n :
              tried[i].method = "AES-CBC" =>
                 \/ i > 1 /\ tried[i - 1].method = "AES-GCM"
                 \/ Len(encrypted_data) < GcmMinLen
        /\ pc = "aes_gcm" => tried = <<Attempt("XOR", FALSE)>>
        /\ pc = "aes_cbc" => n >= 1 /\ \A i \in 1..n : ~tried[i].ok
        /\ pc = "data_returned" =>
              /\ \A i \in 1..n : tried[i].ok = CandidateOutput(tried[i].method).ok
              /\ IF n > 0 /\ tried[n].ok
                 THEN decrypted_data = CandidateOutput(tried[n].method).val
                 ELSE /\ decrypted_data = JNone
                      /\ B64DecodeValue(encrypted_data_b64).ok => n > 0
                      /\ Len(encrypted_data) >= GcmMinLen =>
                            \E i \in 1..n : tried[i].method = "AES-GCM"
                      /\ Len(encrypted_data) > CbcIvLen =>
                            \E i \in 1..n : tried[i].method = "AES-CBC"

\* a call in which XOR and AES-GCM failed and AES-CBC gave the result
C1_Witness ==
    /\ pc = "data_returned"
    /\ DataAttempts(attempts) =
          <<Attempt("XOR", FALSE), Attempt("AES-GCM", FALSE), Attempt("AES-CBC", TRUE)>>
    /\ decrypted_data = JsonLoads(Payload).val

\* C2: a batch gives one output row per record, in the order of the records:
\* between two iterations and at the end there are as many output rows as
\* records taken, row i carries the ResponseId of record i, the count returned
\* is the number of records, and a record in progress is at one of the steps
\* of the iteration, from which its row is appended whatever its outcome.
C2_OneRowPerRecord ==
    /\ Len(decrypted_responses) =
          IF pc \in {"for_row", "done"} THEN Len(group_df) ELSE Len(group_df) - 1
    /\ Len(attempt_log) = Len(decrypted_responses)
    /\ \A i \in 1..Len(decrypted_responses) :
          decrypted_responses[i].ResponseId = group_df[i].ResponseId
    /\ pc = "done" => result[1] = Len(group_df)
    /\ pc \in {"for_row", "decrypt_aes_key", "pkcs1v15", "aes_key_returned",
               "decrypt_location_data", "aes_gcm", "aes_cbc", "data_returned",
               "append", "done"}
    /\ pc = "append" =>
          /\ ENABLED AppendRow
          /\ decrypted_response.ResponseId = CurrentRow.ResponseId

\* a finished batch whose first record failed at the key and whose second
\* record was decrypted
C2_Witness ==
    /\ pc = "done"
    /\ Len(decrypted_responses) = 2
    /\ decrypted_responses[1].encrypted_data = KeyDecryptionFailed
    /\ decrypted_responses[2].decrypted_columns # <<>>

\* C3: decrypt_aes_key attempts OAEP first and PKCS1v15 second, PKCS1v15 only
\* after an OAEP attempt that gave no key: the OAEP attempt gives a key exactly
\* when the OAEP decryption succeeds and its output is UTF-8 text that
\* base64-decodes, an OAEP attempt without a key is followed by the PKCS1v15
\* attempt on the same decoded encrypted key, and a key from OAEP is returned
\* without a PKCS1v15 attempt.
C3_OaepBeforePkcs ==
    LET n == Len(attempts) IN
    /\ \A i \in 1..n :
          /\ attempts[i].method = OAEP => i = 1
          /\ attempts[i].method = PKCS1v15 => i = 2 /\ attempts[1] = Attempt(OAEP,
                FALSE)
    /\ n >= 1 => attempts[1].method = OAEP
    /\ pc = "pkcs1v15" =>
          /\ attempts = <<Attempt(OAEP, FALSE)>>
          /\ aes_key = Unset
          /\ encrypted_key = B64DecodeValue(encrypted_key_b64).val
    /\ pc = "aes_key_returned" /\ n >= 1 =>
          /\ attempts[1].ok =
                \E d \in RSADecrypt(private_key, encrypted_key, OAEP) :
                    d.ok /\ KeyFromDecrypted(d.val).ok
          /\ attempts[1].ok =>
                /\ n = 1
                /\ \E d \in RSADecrypt(private_key, encrypted_key, OAEP) :
                      d.ok /\ aes_key = PyBytes(KeyFromDecrypted(d.val).val)
          /\ ~attempts[1].ok =>
                /\ n = 2
                /\ attempts[2].method = PKCS1v15
                /\ encrypted_key = B64DecodeValue(encrypted_key_b64).val
                /\ attempts[2].ok =>
                      \E d \in RSADecrypt(private_key, encrypted_key, PKCS1v15) :
                          d.ok /\ aes_key = PyBytes(KeyFromDecrypted(d.val).val)

\* the OAEP decryption succeeded, its output was no base64 text, and PKCS1v15
\* was attempted after it
C3_Witness ==
    /\ pc = "aes_key_returned"
    /\ Len(attempts) = 2
    /\ attempts[2].method = PKCS1v15
    /\ \E d \in RSADecrypt(private_key, encrypted_key, OAEP) :
          d.ok /\ Utf8Decode(d.val).ok /\ ~KeyFromDecrypted(d.val).ok

\* the attempts of a row in which both RSA schemes failed
BothRsaFailed(tried) ==
    /\ Len(tried) >= 2
    /\ tried[1] = Attempt(OAEP, FALSE)
    /\ tried[2] = Attempt(PKCS1v15, FALSE)

\* C4: when OAEP and PKCS1v15 both fail, decrypt_aes_key returns None, the
\* batch loop writes KEY_DECRYPTION_FAILED into the record's field, no
\* candidate of decrypt_location_data is attempted for the record, its row is
\* appended and the batch does not end with the record.
C4_KeyFailureSentinel ==
    /\ BothRsaFailed(attempts) =>
          /\ Len(attempts) = 2
          /\ pc \in {"aes_key_returned", "append"}
          /\ aes_key = JNone
          /\ decrypted_data = Unset
          /\ pc = "append" =>
                /\ decrypted_response.encrypted_data = KeyDecryptionFailed
                /\ ENABLED AppendRow
    /\ \A i \in 1..Len(attempt_log) :
          BothRsaFailed(attempt_log[i]) =>
             /\ Len(attempt_log[i]) = 2
             /\ decrypted_responses[i].encrypted_data = KeyDecryptionFailed
             /\ decrypted_responses[i].decrypted_columns = <<>>

\* a record whose key was wrapped for another key pair, then a decrypted record
C4_Witness ==
    /\ Len(decrypted_responses) = 2
    /\ group_df[1] = RowOtherKey
    /\ BothRsaFailed(attempt_log[1])
    /\ decrypted_responses[1].encrypted_data = KeyDecryptionFailed
    /\ decrypted_responses[2].decrypted_columns # <<>>

\* the attempts of a row in which decrypt_location_data tried candidates and
\* none gave valid UTF-8 JSON
NoCandidateValid(tried) ==
    /\ DataAttempts(tried) # <<>>
    /\ \A i \in 1..Len(tried) :
          tried[i].method \in {"XOR", "AES-GCM", "AES-CBC"} => ~tried[i].ok

\* C5: when no candidate gives valid UTF-8 JSON, decrypt_location_data returns
\* None, the batch loop writes DECRYPTION_FAILED into the record's field, the
\* row is appended, and the batch ends only between two records.
C5_DecipherFailureSentinel ==
    /\ pc = "data_returned" /\ NoCandidateValid(attempts) => decrypted_data = JNone
    /\ pc = "append" /\ NoCandidateValid(attempts) =>
          /\ decrypted_response.encrypted_data = DecryptionFailed
          /\ ENABLED AppendRow
    /\ pc = "done" =>
          /\ attempts = <<>>
          /\ Len(decrypted_responses) = Len(group_df)
    /\ \A i \in 1..Len(attempt_log) :
          NoCandidateValid(attempt_log[i]) =>
             /\ decrypted_responses[i].encrypted_data = DecryptionFailed
             /\ decrypted_responses[i].decrypted_columns = <<>>

\* a record on which XOR, AES-GCM and AES-CBC all failed, then a decrypted record
C5_Witness ==
    /\ Len(decrypted_responses) = 2
    /\ DataAttempts(attempt_log[1]) =
          <<Attempt("XOR", FALSE), Attempt("AES-GCM", FALSE), Attempt("AES-CBC",
                FALSE)>>
    /\ decrypted_responses[1].encrypted_data = DecryptionFailed
    /\ decrypted_responses[2].decrypted_columns # <<>>

\* the steps of decrypt_aes_key and decrypt_location_data and of their returns
DecryptSteps ==
    {"decrypt_aes_key", "pkcs1v15", "aes_key_returned", "decrypt_location_data",
     "aes_gcm", "aes_cbc", "data_returned"}

\* the state right after the head of an iteration
JustResolved == pc = "decrypt_aes_key" \/ (pc = "append" /\ aes_key = Unset)

\* a field is a str that starts with one of the two envelope prefixes
Prefixed(field) ==
    /\ field.t = "str"
    /\ StartsWith(field.chars, DirectPrefix) \/ StartsWith(field.chars, Base64Prefix)

\* the envelope of a prefixed field: the JSON of the text itself under the
\* first prefix, the JSON of its base64 decoding under the second
EnvelopeOf(chars) ==
    LET Parsed(text) == IF ~text.ok THEN text ELSE JsonLoads(text.val)
        Text(bytes) == IF ~bytes.ok THEN bytes ELSE Utf8Decode(bytes.val)
    IN  IF StartsWith(chars, DirectPrefix) THEN JsonLoads(chars)
        ELSE Parsed(Text(B64Decode(chars)))

\* 'encryptedData'
EncryptedDataKey == <<101, 110, 99, 114, 121, 112, 116, 101, 100, 68, 97, 116, 97>>

\* 'encryptedKey'
EncryptedKeyKey == <<101, 110, 99, 114, 121, 112, 116, 101, 100, 75, 101, 121>>

\* C6: a field that starts with {"encryptedData" is parsed as JSON, one that
\* starts with eyJ is base64-decoded and then parsed as JSON, and the
\* components given to decrypt_aes_key and decrypt_location_data are those of
\* that envelope; any other field never reaches decrypt_aes_key or
\* decrypt_location_data, and a str among them is marked NON_ENCRYPTED.
C6_ClassifiedByPrefix ==
    /\ pc \in DecryptSteps => Prefixed(CurrentRow.encrypted_data)
    /\ JustResolved =>
          IF ~Prefixed(CurrentRow.encrypted_data)
          THEN /\ pc = "append"
               /\ attempts = <<>>
               /\ CurrentRow.encrypted_data.t = "str" =>
                     StartsWith(decrypted_response.encrypted_data.chars,
                                <<78, 79, 78, 95, 69, 78, 67, 82, 89, 80, 84, 69, 68,
                                      58, 32>>)
               /\ CurrentRow.encrypted_data.t # "str" =>
                     decrypted_response.encrypted_data = CurrentRow.encrypted_data
          ELSE \E envelope \in {EnvelopeOf(CurrentRow.encrypted_data.chars)} :
                  /\ pc = "decrypt_aes_key" =>
                        /\ envelope.ok
                        /\ encrypted_data_b64 =
                              DictGet(envelope.val.items, EncryptedDataKey)
                        /\ encrypted_key_b64 =
                              DictGet(envelope.val.items, EncryptedKeyKey)
                  /\ pc = "append" /\ envelope.ok =>
                        \/ ~PyTruthy(DictGet(envelope.val.items, EncryptedDataKey))
                        \/ ~PyTruthy(DictGet(envelope.val.items, EncryptedKeyKey))
    /\ \A i \in 1..Len(attempt_log) :
          ~Prefixed(group_df[i].encrypted_data) => attempt_log[i] = <<>>

\* a mock string was passed by, and a field that starts with eyJ was decoded,
\* parsed and reached decrypt_aes_key
C6_Witness ==
    /\ Len(group_df) = 2
    /\ group_df[1] = RowMock
    /\ attempt_log = <<(<<>>)>>
    /\ pc = "decrypt_aes_key"
    /\ StartsWith(CurrentRow.encrypted_data.chars, Base64Prefix)
    /\ encrypted_data_b64 = JStr(DataXor)

\* 'PROCESSING_ERROR: '
ProcessingErrorTag == <<80, 82, 79, 67, 69, 83, 83, 73, 78, 71, 95, 69, 82, 82, 79, 82,
      58, 32>>

\* the field of an output row for a prefixed field whose envelope does not parse
RecordsParseFailure(output, envelope) ==
    /\ output.encrypted_data.t = "str"
    /\ output.encrypted_data.chars =
          ProcessingErrorTag \o SubSeq(envelope.err, 1, Min(ErrorTextMax,
                Len(envelope.err)))
    /\ Len(output.encrypted_data.chars) <= Len(ProcessingErrorTag) + ErrorTextMax
    /\ output.decrypted_columns = <<>>

\* C7: for a prefixed field whose JSON parse or base64 decode fails, the
\* record's field becomes PROCESSING_ERROR: followed by the first 100
\* characters of the error message at most, the row is appended under the
\* record's ResponseId, and the loop is back at its head for the next record.
\* No decryption is attempted for such a record, so after the append it is
\* looked for among the records without attempts.
C7_ParseFailureRecorded ==
    /\ pc = "append" /\ aes_key = Unset /\ Prefixed(CurrentRow.encrypted_data) =>
          \E envelope \in {EnvelopeOf(CurrentRow.encrypted_data.chars)} :
              ~envelope.ok =>
                 /\ RecordsParseFailure(decrypted_response, envelope)
                 /\ decrypted_response.ResponseId = CurrentRow.ResponseId
                 /\ attempts = <<>>
                 /\ ENABLED AppendRow
    /\ pc = "for_row" => Len(attempt_log) = Len(group_df)
    /\ /\ pc = "for_row" /\ Len(group_df) >= 1
       /\ Prefixed(CurrentRow.encrypted_data)
       /\ attempt_log[Len(group_df)] = <<>>
       => \E envelope \in {EnvelopeOf(CurrentRow.encrypted_data.chars)} :
              ~envelope.ok =>
                 /\ Len(decrypted_responses) = Len(group_df)
                 /\ RecordsParseFailure(decrypted_responses[Len(group_df)], envelope)
                 /\ decrypted_responses[Len(group_df)].ResponseId = CurrentRow.ResponseId

\* a base64 field whose error message has more than 100 characters, cut to
\* 100 in the output row, then a decrypted record
C7_Witness ==
    /\ Len(decrypted_responses) = 2
    /\ group_df[1] = RowBadBase64
    /\ Len(B64Decode(RowBadBase64.encrypted_data.chars).err) > ErrorTextMax
    /\ Len(decrypted_responses[1].encrypted_data.chars) =
          Len(ProcessingErrorTag) + ErrorTextMax
    /\ decrypted_responses[2].decrypted_columns # <<>>

\* a field of an output row is one of the failure sentinels
IsFailureSentinel(field) ==
    \/ field = KeyDecryptionFailed
    \/ field = DecryptionFailed
    \/ field.t = "str" /\ StartsWith(field.chars, ProcessingErrorTag)

\* C8: an envelope that parses as JSON but lacks encryptedData or
\* encryptedKey gives a failure sentinel in the record's output row, not the
\* untouched input, and the row is appended.
C8_MissingComponentFails ==
    pc = "append" /\ aes_key = Unset /\ Prefixed(CurrentRow.encrypted_data) =>
       \E envelope \in {EnvelopeOf(CurrentRow.encrypted_data.chars)} :
           (/\ envelope.ok
            /\ \/ ~PyTruthy(DictGet(envelope.val.items, EncryptedDataKey))
               \/ ~PyTruthy(DictGet(envelope.val.items, EncryptedKeyKey)))
           => /\ decrypted_response.encrypted_data # CurrentRow.encrypted_data
              /\ IsFailureSentinel(decrypted_response.encrypted_data)
              /\ ENABLED AppendRow

\* 'algorithm'
AlgorithmKey == <<97, 108, 103, 111, 114, 105, 116, 104, 109>>

\* the envelopes of two rows have the same two components, nothing else but
\* the algorithm label, and different labels
DiffersInLabelOnly(row, other) ==
    \E a \in {JsonLoads(row.encrypted_data.chars).val.items} :
    \E b \in {JsonLoads(other.encrypted_data.chars).val.items} :
       /\ Len(a) = 3 /\ Len(b) = 3
       /\ DictGet(a, EncryptedDataKey) = DictGet(b, EncryptedDataKey)
       /\ DictGet(a, EncryptedKeyKey) = DictGet(b, EncryptedKeyKey)
       /\ DictGet(a, AlgorithmKey) # DictGet(b, AlgorithmKey)

\* two rows built from one payload and one wrapped key under two labels
LabelVariants(row, other) ==
    \/ row = RowXorOaep /\ other = RowXorOaepLabelled
    \/ row = RowGarbage /\ other = RowGarbageLabelled

\* C9: two records of a batch whose envelopes differ in the algorithm label
\* only have the same attempts, in the same order with the same results, and
\* the same output field and decrypted columns; the XOR payload labelled
\* AES-256-GCM is decrypted by XOR to the plaintext that was encrypted.
C9_LabelNeverTrusted ==
    /\ \A i, j \in 1..Len(decrypted_responses) :
          LabelVariants(group_df[i], group_df[j]) =>
             /\ DiffersInLabelOnly(group_df[i], group_df[j])
             /\ attempt_log[i] = attempt_log[j]
             /\ decrypted_responses[i].encrypted_data = decrypted_responses[j].encrypted_data
             /\ decrypted_responses[i].decrypted_columns =
                   decrypted_responses[j].decrypted_columns
    /\ pc = "data_returned" /\ CurrentRow \in {RowXorOaep, RowXorOaepLabelled} =>
          /\ attempts = <<Attempt(OAEP, TRUE), Attempt("XOR", TRUE)>>
          /\ decrypted_data = JsonLoads(Payload).val

\* a finished batch of the XOR payload labelled AES-256-GCM and the same
\* envelope labelled XOR, both decrypted
C9_Witness ==
    /\ pc = "done"
    /\ group_df = <<RowXorOaep, RowXorOaepLabelled>>
    /\ DiffersInLabelOnly(group_df[1], group_df[2])
    /\ attempt_log[1] = <<Attempt(OAEP, TRUE), Attempt("XOR", TRUE)>>
    /\ decrypted_responses[1].decrypted_columns # <<>>

\* C10: an AES key wrapped as raw bytes under PKCS1v15 for the loaded key
\* pair is returned by decrypt_aes_key as the original key bytes.
C10_RawKeyUnderPkcsRecovered ==
    pc = "aes_key_returned" /\ encrypted_key = RSAEncrypt(private_key, AesKey, PKCS1v15)
       => aes_key = PyBytes(AesKey)

(***************************************************************************)
(* Round trips.  Envelopes produced from a plaintext, a symmetric key, an  *)
(* IV and a key pair the way the clients and EncryptionTester produce      *)
(* them, each in a group of one record.  The ResponseId of a row spells    *)
(* out what the row was made from: the scheme (X, C or G), then the digits *)
(* of the plaintext, the key and the IV, the key pair the key was wrapped  *)
(* for, the padding (O or P) and whether the key was base64-encoded before *)
(* it was wrapped (b) or not (r).                                          *)
(***************************************************************************)
\* the largest number of location points in a plaintext
MaxPoints == 2

\* the number of symmetric keys
MaxKeys == 2

\* the number of IVs
MaxIvs == 1

\* plaintext 0 is three bytes that are no text; plaintext n + 1 is
\* json.dumps(package, separators=(',', ':')) of a package with n location
\* points, in the order 1..n
PlaintextOf(n) ==
    LET RECURSIVE Locations(_)
        Locations(m) ==
            IF m = 0 THEN <<>>
            ELSE Locations(m - 1) \o (IF m > 1 THEN <<44>> ELSE <<>>)
                 \o <<123, 34, 108, 97, 116, 105, 116, 117, 100, 101, 34,
                       58>> \o <<48 + m>> \o <<125>>
    IN  IF n = 0 THEN <<255, 0, 123>>
        ELSE <<123, 34, 117, 105, 100, 34, 58, 34, 97, 34, 44, 34, 108, 111, 99, 97,
              116, 105, 111, 110, 68, 97, 116, 97, 34, 58,
              91>> \o Locations(n - 1) \o <<93, 125>>

\* symmetric key k: 16, 5, 32 or 24 bytes, bytes above 127 among them
AesKeyOf(k) ==
    LET size == IF k % 4 = 1 THEN 16 ELSE IF k % 4 = 2 THEN 5
                ELSE IF k % 4 = 3 THEN 32 ELSE 24
    IN  [i \in 1..size |-> (37 * i + 150 + 61 * (k - 1)) % 256]

\* IV v of 16 bytes; its first 12 bytes serve as the GCM nonce
IvOf(v) == [i \in 1..16 |-> (11 * i + 3 + 17 * (v - 1)) % 256]

KeyPairs == {LoadedKeyPair, OtherKeyPair}

\* the row of one envelope
RoundTripRow(scheme, n, k, v, pair, padding, pre) ==
    LET key == AesKeyOf(k)
        data == IF scheme = "XOR" THEN EncryptXor(PlaintextOf(n), key)
                ELSE IF scheme = "AES-CBC"
                THEN EncryptAesCbc(PlaintextOf(n), key, IvOf(v))
                ELSE EncryptAesGcm(PlaintextOf(n), key, Take(IvOf(v), GcmNonceLen))
        wrapped == RSAEncrypt(pair, IF pre THEN B64Encode(key) ELSE key, padding)
        id == <<IF scheme = "XOR" THEN 88 ELSE IF scheme = "AES-CBC" THEN 67 ELSE 71,
                48 + n, 48 + k, 48 + v, 48 + pair.kid, PaddingTag(padding),
                IF pre THEN 98 ELSE 114>>
    IN  Row(id, JStr(PackageJson(B64Encode(data), B64Encode(wrapped), LabelGcm)))

\* the rows of every combination; AES needs a key of an AES key size, and XOR
\* uses no IV
RoundTripRows ==
    {RoundTripRow(c[1], c[2], c[3], c[4], c[5], c[6], c[7]) :
        c \in {d \in {"XOR", "AES-GCM", "AES-CBC"} \X (0..(MaxPoints + 1))
                     \X (1..MaxKeys) \X (1..MaxIvs) \X KeyPairs \X {OAEP, PKCS1v15}
                     \X BOOLEAN :
                  IF d[1] = "XOR" THEN d[4] = 1 ELSE AESKeySizeOk(AesKeyOf(d[3]))}}

\* a pipeline that has loaded either private key, before the first row
InitRoundTrip ==
    /\ private_key \in KeyPairs
    /\ survey_config \in SurveyConfigs
    /\ group_df = <<>>
    /\ pc = "for_row"
    /\ decrypted_response = Unset
    /\ encrypted_data_b64 = Unset
    /\ encrypted_key_b64 = Unset
    /\ encrypted_key = <<>>
    /\ aes_key = Unset
    /\ encrypted_data = <<>>
    /\ decrypted_data = Unset
    /\ attempts = <<>>
    /\ attempt_log = <<>>
    /\ decrypted_responses = <<>>
    /\ location_data_points = <<>>
    /\ result = Unset
    /\ results = NewResults
    /\ runner = Unset
    /\ process = Unset
    /\ exit_code = Unset
    /\ csv_file = Unset
    /\ download = Unset
    /\ call = Unset

\* _process_survey_group on a group of one record
NextRoundTrip ==
    \/ group_df = <<>> /\ \E row \in RoundTripRows : ResolveEnvelope(row)
    \/ DecryptAesKeyOAEP
    \/ DecryptAesKeyPKCS1v15
    \/ AesKeyReturned
    \/ DecryptXor
    \/ DecryptGcm
    \/ DecryptCbc
    \/ DecryptedDataReturned
    \/ AppendRow
    \/ group_df # <<>> /\ SaveOutputs

SpecRoundTrip == InitRoundTrip /\ [][NextRoundTrip]_vars

(***************************************************************************)
(* Claims C11 to C20.  In the round trips the digits of the current row's  *)
(* ResponseId name the plaintext, the key and the IV the row was made      *)
(* from; the formulas compare the state with what those inputs give.       *)
(***************************************************************************)
\* the plaintext, the symmetric key and the IV of the current round-trip row
RowPlaintext == PlaintextOf(CurrentRow.ResponseId.chars[2] - 48)

RowAesKey == AesKeyOf(CurrentRow.ResponseId.chars[3] - 48)

RowIv == IvOf(CurrentRow.ResponseId.chars[4] - 48)

\* C11: when the wrapped key of the envelope is base64(aes_key) under
\* RSA-OAEP for the key pair whose private key is loaded, decrypt_aes_key
\* returns exactly the aes_key bytes, by the OAEP attempt alone.
C11_OaepKeyRoundTrip ==
    /\ pc = "aes_key_returned"
    /\ encrypted_key = RSAEncrypt(private_key, B64Encode(RowAesKey), OAEP)
    => /\ aes_key = PyBytes(RowAesKey)
       /\ attempts = <<Attempt(OAEP, TRUE)>>

\* decrypt_aes_key has returned the 5-byte key wrapped for the other key pair,
\* whose private key is the one loaded
C11_Witness ==
    /\ pc = "aes_key_returned"
    /\ private_key = OtherKeyPair
    /\ encrypted_key = RSAEncrypt(OtherKeyPair, B64Encode(AesKeyOf(2)), OAEP)
    /\ aes_key = PyBytes(AesKeyOf(2))
    /\ Len(AesKeyOf(2)) = 5

(***************************************************************************)
(* The buffered payloads of download_buffered_surveys.py.  A payload is    *)
(* the text of one S3 object; its row carries the SHA-256 of that text.    *)
(***************************************************************************)
\* BufferedPayload.encrypted_hash
EncryptedHash(payload) == Sha256Hex(payload)

\* BufferedPayload.response_id: "s3::" followed by the hex digest
ResponseIdOf(payload) ==
    [t |-> "str", chars |-> <<115, 51, 58, 58>>, hexdigest |-> EncryptedHash(payload)]

\* BufferedPayload.to_row, with the columns the pipeline reads
ToRow(payload) ==
    [ResponseId |-> ResponseIdOf(payload), encrypted_data |-> JStr(payload),
     encrypted_data_hash |-> EncryptedHash(payload), decrypted_columns |-> <<>>]

(***************************************************************************)
(* main of the pipeline, run on one CSV file (--file): load the private    *)
(* key, optionally download, read the file, process its survey-type groups *)
(* one after the other, print the summary and exit.                        *)
(***************************************************************************)
\* a row of a CSV merged from elsewhere: its hash column holds the hash of
\* another payload
RowForeignHash ==
    [RowXorOaep EXCEPT !.ResponseId = JStr(<<82, 95, 102, 111, 114, 101, 105, 103,
          110>>),
                       !.encrypted_data_hash = EncryptedHash(RowMock.encrypted_data.chars)]

\* the rows a CSV file can hold: exported rows and buffered rows
MainRows ==
    {RowXorOaep, RowOtherKey, RowGarbage, RowTruncatedJson, RowMock,
     ToRow(RowXorOaep.encrypted_data.chars), RowForeignHash}

\* df.groupby('survey_type'): the groups of a file, in the order of their names
SurveyTypeGroups ==
    LET biweekly == CHOOSE c \in SurveyConfigs : c.location_column = "encrypted_data"
        initial == CHOOSE c \in SurveyConfigs : c.location_column = "None"
    IN  {<<>>, <<biweekly>>, <<initial>>, <<biweekly, initial>>}

InitMain ==
    /\ private_key = JNone
    /\ survey_config = Unset
    /\ group_df = <<>>
    /\ pc = "main"
    /\ decrypted_response = Unset
    /\ encrypted_data_b64 = Unset
    /\ encrypted_key_b64 = Unset
    /\ encrypted_key = <<>>
    /\ aes_key = Unset
    /\ encrypted_data = <<>>
    /\ decrypted_data = Unset
    /\ attempts = <<>>
    /\ attempt_log = <<>>
    /\ decrypted_responses = <<>>
    /\ location_data_points = <<>>
    /\ result = Unset
    /\ results = NewResults
    /\ runner = Unset
    /\ process = Unset
    /\ exit_code = Unset
    /\ csv_file = Unset
    /\ download = Unset
    /\ call = Unset

\* the locals of _process_survey_group and of the methods it calls
group_vars ==
    <<group_df, decrypted_response, encrypted_data_b64, encrypted_key_b64,
      encrypted_key, aes_key, encrypted_data, decrypted_data, attempts,
      attempt_log, decrypted_responses, location_data_points, result>>

\* a main that goes on after load_private_key returned False
LoadPrivateKeyContinuing ==
    /\ pc = "main"
    /\ \E outcome \in {"loaded", "not found", "raised"} :
          /\ private_key' \in IF outcome = "loaded" THEN KeyPairs ELSE {JNone}
          /\ results' = IF outcome = "raised"
                        THEN [results EXCEPT !.errors = Append(@, "Key loading error")]
                        ELSE results
    /\ pc' = "download_first"
    /\ UNCHANGED <<exit_code, survey_config, csv_file, download, call, group_vars, runner_vars>>

\* main: load_private_key, and "Failed to load private key. Exiting." when
\* it returns False.  A missing file returns False at once; an exception of
\* the loader (unparsable PEM, wrong passphrase) is logged first.
LoadPrivateKey ==
    /\ pc = "main"
    /\ \E outcome \in {"loaded", "not found", "raised"} :
          IF outcome = "loaded"
          THEN /\ private_key' \in KeyPairs
               /\ pc' = "download_first"
               /\ UNCHANGED <<results, exit_code>>
          ELSE /\ results' = IF outcome = "not found" THEN results
                             ELSE [results EXCEPT
                                      !.errors = Append(@, "Key loading error")]
               /\ exit_code' = 1
               /\ pc' = "exit"
               /\ UNCHANGED private_key
    /\ UNCHANGED <<survey_config, csv_file, download, call, group_vars, runner_vars>>

\* main: --download-first, with run_download_first
RunDownloadFirst ==
    /\ pc = "download_first"
    /\ \E outcome \in {"not requested", "no selection", "failed", "raised",
                       "downloaded"} :
          IF outcome \in {"not requested", "downloaded"}
          THEN pc' = "process" /\ UNCHANGED <<results, exit_code>>
          ELSE /\ results' =
                     IF outcome = "no selection" THEN results
                     ELSE [results EXCEPT !.errors = Append(@,
                              IF outcome = "failed" THEN "Download error"
                              ELSE "Download execution error")]
               /\ exit_code' = 1
               /\ pc' = "exit"
    /\ UNCHANGED <<private_key, survey_config, csv_file, download, call, group_vars, runner_vars>>

\* process_csv_file up to the loop over the groups; when it returns False
\* main prints the summary and returns 1
ProcessCsvFile ==
    /\ pc = "process"
    /\ \E outcome \in {"not found", "raised", "no survey_type", "read"} :
          IF outcome = "read"
          THEN /\ \E groups \in SurveyTypeGroups :
                     csv_file' = [groups |-> groups, total_decrypted |-> 0,
                                  total_location_points |-> 0]
               /\ pc' = "for_group"
               /\ UNCHANGED <<results, exit_code>>
          ELSE /\ results' = IF outcome = "raised"
                             THEN [results EXCEPT
                                      !.errors = Append(@, "Processing error in file")]
                             ELSE results
               /\ exit_code' = 1
               /\ pc' = "exit"
               /\ UNCHANGED csv_file
    /\ UNCHANGED <<private_key, survey_config, download, call, group_vars, runner_vars>>

\* the loop of process_csv_file takes the next group and calls
\* _process_survey_group, which starts with empty lists
NextGroup ==
    /\ pc = "for_group"
    /\ csv_file.groups # <<>>
    /\ survey_config' = Head(csv_file.groups)
    /\ csv_file' = [csv_file EXCEPT !.groups = Tail(@)]
    /\ group_df' = <<>>
    /\ attempt_log' = <<>>
    /\ decrypted_responses' = <<>>
    /\ location_data_points' = <<>>
    /\ result' = Unset
    /\ pc' = "for_row"
    /\ UNCHANGED <<runner_vars, results, exit_code, download, call, private_key,
                   decrypted_response, encrypted_data_b64, encrypted_key_b64,
                   encrypted_key, aes_key, encrypted_data, decrypted_data, attempts>>

\* _process_survey_group: saving the outputs raises, the outer handler logs
\* the error and returns 0, 0
ProcessSurveyGroupRaised ==
    /\ pc = "for_row"
    /\ result' = <<0, 0>>
    /\ results' = [results EXCEPT !.errors = Append(@, "Processing error in group")]
    /\ pc' = "done"
    /\ UNCHANGED <<runner_vars, exit_code, csv_file, download, call, private_key,
                   survey_config,
                   group_df, decrypted_response, encrypted_data_b64,
                   encrypted_key_b64, encrypted_key, aes_key, encrypted_data,
                   decrypted_data, attempts, attempt_log, decrypted_responses,
                   location_data_points>>

\* total_decrypted += decrypted_count; total_location_points += location_count
GroupReturned ==
    /\ pc = "done"
    /\ csv_file' = [csv_file EXCEPT
                       !.total_decrypted = @ + result[1],
                       !.total_location_points = @ + result[2]]
    /\ pc' = "for_group"
    /\ UNCHANGED <<results, exit_code, download, call, private_key, survey_config,
                   group_vars, runner_vars>>

\* the groups are exhausted: process_csv_file updates self.results and
\* returns True, main prints the summary and returns 0
FileProcessed ==
    /\ pc = "for_group"
    /\ csv_file.groups = <<>>
    /\ results' = [results EXCEPT
                      !.processed_files = Append(@, "file"),
                      !.decrypted_responses = @ + csv_file.total_decrypted,
                      !.location_points = @ + csv_file.total_location_points]
    /\ exit_code' = 0
    /\ pc' = "exit"
    /\ UNCHANGED <<csv_file, download, call, private_key, survey_config, group_vars, runner_vars>>

NextMain ==
    \/ LoadPrivateKey
    \/ RunDownloadFirst
    \/ ProcessCsvFile
    \/ NextGroup
    \/ \E row \in MainRows : ResolveEnvelope(row)
    \/ DecryptAesKeyOAEP
    \/ DecryptAesKeyPKCS1v15
    \/ AesKeyReturned
    \/ DecryptXor
    \/ DecryptGcm
    \/ DecryptCbc
    \/ DecryptedDataReturned
    \/ AppendRow
    \/ SaveOutputs
    \/ ProcessSurveyGroupRaised
    \/ GroupReturned
    \/ FileProcessed

SpecMain == InitMain /\ [][NextMain]_vars

C13_NotEncryptedVerbatim ==
    \A i \in 1..Len(decrypted_responses) :
        /\ group_df[i].encrypted_data.t = "str"
        /\ Len(group_df[i].encrypted_data.chars) > 0
        /\ ~Prefixed(group_df[i].encrypted_data)
        => decrypted_responses[i].encrypted_data = group_df[i].encrypted_data

\* the package whose json.dumps is plaintext n + 1: a uid and n location
\* points, point m with latitude m
PackageOf(n) ==
    JDict(<<[k |-> <<117, 105, 100>>, v |-> JStr(<<97>>)],
            [k |-> LocationDataKey,
             v |-> JList([m \in 1..n |-> JDict(<<[k |-> <<108, 97, 116, 105, 116, 117,
                   100, 101>>, v |-> JInt(m)]>>)])]>>)

\* C14: when the payload of the envelope is AES-CBC of the JSON text of a
\* package (iv, then the ciphertext of the PKCS7-padded text) and its key is
\* base64-encoded and wrapped under RSA-OAEP for the loaded key pair,
\* decrypt_aes_key and decrypt_location_data return exactly that package,
\* its location points in their order, after the XOR and the AES-GCM
\* candidates were tried and failed.
C14_CbcOaepEndToEnd ==
    /\ pc = "data_returned"
    /\ CurrentRow.ResponseId.chars[2] > 48
    /\ encrypted_key = RSAEncrypt(private_key, B64Encode(RowAesKey), OAEP)
    /\ encrypted_data = EncryptAesCbc(RowPlaintext, RowAesKey, RowIv)
    => /\ decrypted_data = PackageOf(CurrentRow.ResponseId.chars[2] - 49)
       /\ attempts = <<Attempt(OAEP, TRUE), Attempt("XOR", FALSE),
                       Attempt("AES-GCM", FALSE), Attempt("AES-CBC", TRUE)>>

\* decrypt_location_data has returned the package with two location points
\* from its AES-CBC ciphertext
C14_Witness ==
    /\ pc = "data_returned"
    /\ encrypted_key = RSAEncrypt(private_key, B64Encode(AesKeyOf(1)), OAEP)
    /\ encrypted_data = EncryptAesCbc(PlaintextOf(3), AesKeyOf(1), IvOf(1))
    /\ decrypted_data = PackageOf(2)
    /\ DictGet(decrypted_data.items,
          LocationDataKey).elems[1] # DictGet(decrypted_data.items,
          LocationDataKey).elems[2]
    /\ attempts[Len(attempts)] = Attempt("AES-CBC", TRUE)

\* C15: when the payload is the XOR of a plaintext byte string with a
\* non-empty repeating key (byte i with key[i mod len(key)]), the XOR loop
\* of the decipherer under the same key gives back the plaintext bytes,
\* whatever they are, and as many of them; when they are the JSON text of a
\* package the XOR candidate returns that package.
C15_XorRoundTrip ==
    /\ pc \in {"aes_gcm", "data_returned"}
    /\ aes_key = PyBytes(RowAesKey)
    /\ encrypted_data = EncryptXor(RowPlaintext, RowAesKey)
    => /\ XorDecrypted(encrypted_data, aes_key.bytes) = RowPlaintext
       /\ Len(encrypted_data) = Len(RowPlaintext)
       /\ CurrentRow.ResponseId.chars[2] > 48 =>
             /\ pc = "data_returned"
             /\ decrypted_data = PackageOf(CurrentRow.ResponseId.chars[2] - 49)
             /\ attempts[Len(attempts)] = Attempt("XOR", TRUE)

\* the XOR candidate has gone over the three bytes 255, 0, 123 encrypted under
\* the 5-byte key: they are no text, so it fell through to AES-GCM
C15_Witness ==
    /\ pc = "aes_gcm"
    /\ aes_key = PyBytes(AesKeyOf(2))
    /\ Len(AesKeyOf(2)) = 5
    /\ encrypted_data = EncryptXor(<<255, 0, 123>>, AesKeyOf(2))
    /\ encrypted_data # <<255, 0, 123>>
    /\ XorDecrypted(encrypted_data, aes_key.bytes) = <<255, 0, 123>>

\* "DECRYPTED: ", the head of the summary that replaces a decrypted field
DecryptedTag == <<68, 69, 67, 82, 89, 80, 84, 69, 68, 58, 32>>

\* the records of the group whose payload was decrypted
RecordsDecrypted ==
    {i \in 1..Len(decrypted_responses) :
        /\ decrypted_responses[i].encrypted_data.t = "str"
        /\ StartsWith(decrypted_responses[i].encrypted_data.chars, DecryptedTag)}

\* C16: the 'Responses decrypted' total of the summary,
\* results['decrypted_responses'], is the number of records whose payload
\* was decrypted; records that ended as KEY_DECRYPTION_FAILED,
\* DECRYPTION_FAILED, PROCESSING_ERROR or not encrypted are not counted.
\* Stated for a file of one group, whose rows the state still holds at the
\* exit: the 'biweekly' group comes first, so it is the last one processed
\* only when it is the only one.
C16_SummaryCountsDecrypted ==
    /\ pc = "exit"
    /\ exit_code = 0
    /\ survey_config # Unset
    /\ results.errors = <<>>
    => (survey_config.location_column = "encrypted_data"
        => results.decrypted_responses = Cardinality(RecordsDecrypted))

\* the records of the group that ended with a failure sentinel
RecordsFailed ==
    {i \in 1..Len(decrypted_responses) :
        IsFailureSentinel(decrypted_responses[i].encrypted_data)}

\* C17: every record that failed (malformed envelope, key unwrap, payload
\* decipher) has added an entry to results['errors']: the log holds at least
\* as many entries as there are failed records.
C17_FailuresLogged == Len(results.errors) >= Cardinality(RecordsFailed)

(***************************************************************************)
(* main of download_buffered_surveys.py: the loop over the listed keys and *)
(* the CSV it writes.  An S3 object is what get_object gives for it: a     *)
(* body, or a ClientError.  The key of an object is its position in the    *)
(* listing.                                                                *)
(***************************************************************************)
\* the most objects a listing holds
MaxObjects == 3

\* what get_object gives: three texts, bytes that are no UTF-8, an error
ObjectBodies ==
    {[error |-> FALSE, body |-> <<101, 121, 74, 104>>],
     [error |-> FALSE, body |-> <<109, 111, 99, 107>>],
     [error |-> FALSE, body |-> <<>>],
     [error |-> FALSE, body |-> <<255, 254>>],
     [error |-> TRUE, body |-> <<>>]}

\* main up to the loop; --max and --skip-decrypt are the arguments that
\* matter to it
InitDownload ==
    /\ download \in
          [max : {Unset} \cup {JInt(n) : n \in 0..MaxObjects},
           skip_decrypt : BOOLEAN,
           listed : {<<>>},
           seen_hashes : {{}},
           records : {<<>>},
           processed : {0},
           duplicates : {0},
           decrypted_ok : {0},
           decrypted_fail : {0},
           csv : {Unset}]
    /\ pc = "for_key"
    /\ private_key = JNone
    /\ survey_config = Unset
    /\ group_df = <<>>
    /\ decrypted_response = Unset
    /\ encrypted_data_b64 = Unset
    /\ encrypted_key_b64 = Unset
    /\ encrypted_key = <<>>
    /\ aes_key = Unset
    /\ encrypted_data = <<>>
    /\ decrypted_data = Unset
    /\ attempts = <<>>
    /\ attempt_log = <<>>
    /\ decrypted_responses = <<>>
    /\ location_data_points = <<>>
    /\ result = Unset
    /\ results = NewResults
    /\ runner = Unset
    /\ process = Unset
    /\ exit_code = Unset
    /\ csv_file = Unset
    /\ call = Unset

\* everything but download, pc and exit_code
pipeline_vars ==
    <<private_key, survey_config, group_vars, results, csv_file, call, runner_vars>>

\* download_payload: None after a ClientError or a body that is no UTF-8,
\* else the BufferedPayload of the key
DownloadPayload(key, object) ==
    LET Record(payload) ==
            IF ~payload.ok THEN JNone ELSE [key |-> key, payload |-> payload.val]
    IN  IF object.error THEN JNone ELSE Record(Utf8Decode(object.body))

\* a loop that counts a duplicate and keeps its record all the same
ProcessKeyKeepingDuplicates(object) ==
    /\ pc = "for_key"
    /\ Len(download.listed) < MaxObjects
    /\ download.max # Unset => download.processed < download.max.n
    /\ \E record \in {DownloadPayload(Len(download.listed) + 1, object)} :
          LET inspected == [download EXCEPT !.listed = Append(@, object),
                                            !.processed = @ + 1]
          IN  IF record = JNone
              THEN download' = inspected
              ELSE download' =
                      [inspected EXCEPT
                          !.duplicates =
                              IF EncryptedHash(record.payload) \in download.seen_hashes
                              THEN @ + 1 ELSE @,
                          !.seen_hashes = @ \cup {EncryptedHash(record.payload)},
                          !.records = Append(@, record)]
    /\ UNCHANGED <<pc, exit_code, pipeline_vars>>

\* one iteration of the loop of main over the next listed key
ProcessKey(object) ==
    /\ pc = "for_key"
    /\ Len(download.listed) < MaxObjects
    /\ download.max # Unset => download.processed < download.max.n
    /\ \E record \in {DownloadPayload(Len(download.listed) + 1, object)},
          ok \in BOOLEAN :
          LET inspected == [download EXCEPT !.listed = Append(@, object),
                                            !.processed = @ + 1]
          IN  IF record = JNone
              THEN ok /\ download' = inspected
              ELSE IF EncryptedHash(record.payload) \in download.seen_hashes
              THEN ok /\ download' = [inspected EXCEPT !.duplicates = @ + 1]
              ELSE /\ download.skip_decrypt => ok
                   /\ download' =
                         [inspected EXCEPT
                             !.seen_hashes = @ \cup {EncryptedHash(record.payload)},
                             !.records = Append(@, record),
                             !.decrypted_ok =
                                 IF ~download.skip_decrypt /\ ok THEN @ + 1 ELSE @,
                             !.decrypted_fail =
                                 IF ~download.skip_decrypt /\ ~ok THEN @ + 1 ELSE @]
    /\ UNCHANGED <<pc, exit_code, pipeline_vars>>

\* the listing is exhausted or --max is reached: write_records_csv, the
\* summary, return 0
WriteRecordsCsv ==
    /\ pc = "for_key"
    /\ download' = [download EXCEPT !.csv =
          [i \in 1..Len(download.records) |->
              [buffer_key |-> download.records[i].key]
              @@ ToRow(download.records[i].payload)]]
    /\ exit_code' = 0
    /\ pc' = "exit"
    /\ UNCHANGED pipeline_vars

NextDownload ==
    \/ \E object \in ObjectBodies : ProcessKey(object)
    \/ WriteRecordsCsv

SpecDownload == InitDownload /\ [][NextDownload]_vars

\* an object whose body came and is text
Readable(object) ==
    ~object.error /\ \A b \in 1..Len(object.body) : object.body[b] < 128

\* C18: the CSV the downloader writes has one row per unique payload of the
\* objects it inspected: no two rows share an encrypted_data_hash or a
\* ResponseId, every readable object's payload has a row, and the row of a
\* payload is that of the first listed object with that payload.
C18_OneRowPerPayload ==
    pc = "exit" =>
       /\ \A i, j \in 1..Len(download.csv) :
             i # j => /\ download.csv[i].encrypted_data_hash
                            # download.csv[j].encrypted_data_hash
                      /\ download.csv[i].ResponseId # download.csv[j].ResponseId
                      /\ download.csv[i].encrypted_data # download.csv[j].encrypted_data
       /\ \A k \in 1..Len(download.listed) :
             Readable(download.listed[k]) =>
                \E i \in 1..Len(download.csv) :
                   download.csv[i].encrypted_data = JStr(download.listed[k].body)
       /\ \A i \in 1..Len(download.csv) :
             /\ download.csv[i].buffer_key \in 1..Len(download.listed)
             /\ Readable(download.listed[download.csv[i].buffer_key])
             /\ \A k \in 1..download.csv[i].buffer_key :
                   (download.listed[k].body = download.csv[i].encrypted_data.chars
                       /\ ~download.listed[k].error)
                   <=> k = download.csv[i].buffer_key

\* three objects were listed, the third with the payload of the first: the
\* CSV has two rows, the first from object 1
C18_Witness ==
    /\ pc = "exit"
    /\ Len(download.listed) = 3
    /\ Readable(download.listed[1])
    /\ download.listed[3] = download.listed[1]
    /\ download.listed[2] # download.listed[1]
    /\ download.duplicates = 1
    /\ Len(download.csv) = 2
    /\ download.csv[1].buffer_key = 1
    /\ download.csv[2].buffer_key = 2

RsaKeyBytes == 40

\* fix_base64_padding
FixBase64Padding(data) ==
    IF Len(data) % 4 = 0 THEN data
    ELSE data \o [i \in 1..(4 - (Len(data) % 4)) |-> 61]

\* the value behind an outcome, None behind an exception
ValueOrNone(outcome) == IF outcome.ok THEN outcome.val ELSE JNone

\* a variant of decrypt_hybrid_format without the fallback to the raw bytes:
\* key material that is no base64 text makes it return None
DecryptHybridFormatBase64Only(encrypted_package, key) ==
    LET SurveyData(xored, xor_key) ==
            IF ~xor_key.ok \/ (Len(xored) > 0 /\ Len(xor_key.val) = 0) THEN JNone
            ELSE ValueOrNone(DecodeJson(XorDecrypted(xored, xor_key.val)))
        Decrypted(data_bytes, key_bytes) ==
            IF ~data_bytes.ok \/ ~key_bytes.ok \/ key = JNone THEN {JNone}
            ELSE {IF ~key_data.ok THEN JNone
                  ELSE SurveyData(data_bytes.val, KeyFromDecrypted(key_data.val)) :
                     key_data \in RSADecrypt(key, key_bytes.val, PKCS1v15)}
        Components(data, wrapped) ==
            IF data.t # "str" \/ wrapped.t # "str" THEN {JNone}
            ELSE Decrypted(B64Decode(FixBase64Padding(data.chars)),
                           B64Decode(FixBase64Padding(wrapped.chars)))
    IN  IF encrypted_package.t # "dict" THEN {JNone}
        ELSE Components(DictGet(encrypted_package.items, EncryptedDataKey),
                        DictGet(encrypted_package.items, EncryptedKeyKey))

\* decrypt_hybrid_format: the values it can return, None after any exception
DecryptHybridFormat(encrypted_package, key) ==
    LET SurveyData(xored, xor_key) ==
            IF Len(xored) > 0 /\ Len(xor_key) = 0 THEN JNone
            ELSE ValueOrNone(DecodeJson(XorDecrypted(xored, xor_key)))
        AesKeyFrom(key_data, decoded) ==
            IF decoded.ok THEN decoded.val ELSE key_data
        Decrypted(data_bytes, key_bytes) ==
            IF ~data_bytes.ok \/ ~key_bytes.ok \/ key = JNone THEN {JNone}
            ELSE {IF ~key_data.ok THEN JNone
                  ELSE SurveyData(data_bytes.val,
                              AesKeyFrom(key_data.val,
                                         KeyFromDecrypted(key_data.val))) :
                     key_data \in RSADecrypt(key, key_bytes.val, PKCS1v15)}
        Components(data, wrapped) ==
            IF data.t # "str" \/ wrapped.t # "str" THEN {JNone}
            ELSE Decrypted(B64Decode(FixBase64Padding(data.chars)),
                           B64Decode(FixBase64Padding(wrapped.chars)))
    IN  IF encrypted_package.t # "dict" THEN {JNone}
        ELSE Components(DictGet(encrypted_package.items, EncryptedDataKey),
                        DictGet(encrypted_package.items, EncryptedKeyKey))

\* json.loads(base64.b64decode(encrypted_data_b64).decode('utf-8'))
EncryptedPackage(input_b64) ==
    LET Parsed(text) == IF ~text.ok THEN text ELSE JsonLoads(text.val)
        Text(bytes) == IF ~bytes.ok THEN bytes ELSE Utf8Decode(bytes.val)
    IN  Parsed(Text(B64Decode(input_b64)))

\* 'encryptedData' in encrypted_package and 'encryptedKey' in encrypted_package
HybridDetected(encrypted_package) ==
    LET Second(first) ==
            IF ~first.ok \/ ~first.val THEN first
            ELSE PyContains(encrypted_package, EncryptedKeyKey)
    IN  Second(PyContains(encrypted_package, EncryptedDataKey))

\* a direct branch without the test of the data length against the key size
DirectRsaUnchecked(input_b64, key) ==
    LET Decrypted(data_bytes) ==
            IF ~data_bytes.ok THEN {data_bytes}
            ELSE IF key = JNone THEN {Raise(<<78, 111>>)}
            ELSE {IF ~decrypted_bytes.ok THEN decrypted_bytes
                  ELSE DecodeJson(decrypted_bytes.val) :
                     decrypted_bytes \in RSADecrypt(key, data_bytes.val, PKCS1v15)}
    IN  Decrypted(B64Decode(input_b64))

\* the direct RSA branch of decrypt_data up to its except clause: the
\* outcomes json.loads or an exception can give; None for oversized data
DirectRsa(input_b64, key) ==
    LET Decrypted(data_bytes) ==
            IF ~data_bytes.ok THEN {data_bytes}
            ELSE IF key = JNone THEN {Raise(<<78, 111, 32, 115, 117, 99, 104, 32, 102,
                  105, 108, 101, 32, 111, 114, 32, 100, 105, 114, 101, 99, 116, 111,
                  114, 121>>)}
            ELSE IF Len(data_bytes.val) > RsaKeyBytes THEN {Ok(JNone)}
            ELSE {IF ~decrypted_bytes.ok THEN decrypted_bytes
                  ELSE DecodeJson(decrypted_bytes.val) :
                     decrypted_bytes \in RSADecrypt(key, data_bytes.val, PKCS1v15)}
    IN  Decrypted(B64Decode(input_b64))

\* a JSON text as the input of decrypt_data
Base64Of(text) == B64Encode(text)

\* a short survey, encrypted directly and as a hybrid package
Survey == <<123, 34, 113, 34, 58, 49, 125>>

\* the inputs: hybrid packages (key as base64 text, raw key, OAEP-wrapped key,
\* empty survey), JSON values that are no package, direct RSA ciphertexts
\* (of a survey, of a number, of no JSON, OAEP, of a text longer than the
\* key), and texts that are neither
DecryptInputs ==
    {Base64Of(PackageJson(DataXor, KeyPkcsB64, LabelGcm)),
     Base64Of(PackageJson(DataXor, KeyPkcsRaw, LabelGcm)),
     Base64Of(PackageJson(DataXor, KeyOaepB64, LabelGcm)),
     Base64Of(PackageJson(B64Encode(EncryptXor(<<123, 125>>, AesKey)), KeyPkcsB64,
           LabelGcm)),
     Base64Of(PackageJson(<<65, 65, 65>>, <<65, 65, 65>>, LabelGcm)),
     Base64Of(<<123, 34, 101, 110, 99, 114, 121, 112, 116, 101, 100, 68, 97, 116, 97,
           34, 58, 34, 81, 85, 74, 68, 34, 125>>),
     Base64Of(<<123, 34, 101, 110, 99, 114, 121, 112, 116, 101, 100, 68, 97, 116, 97,
           34, 58, 49, 44, 34, 101, 110, 99, 114, 121, 112, 116, 101, 100, 75, 101,
           121, 34, 58, 50, 125>>),
     Base64Of(<<34, 101, 110, 99, 114, 121, 112, 116, 101, 100, 68, 97, 116, 97, 44,
           101, 110, 99, 114, 121, 112, 116, 101, 100, 75, 101, 121, 34>>),
     Base64Of(<<91, 34, 101, 110, 99, 114, 121, 112, 116, 101, 100, 68, 97, 116, 97,
           34, 44, 34, 101, 110, 99, 114, 121, 112, 116, 101, 100, 75, 101, 121, 34,
           93>>),
     Base64Of(<<91, 34, 101, 110, 99, 114, 121, 112, 116, 101, 100, 68, 97, 116, 97,
           34, 93>>),
     Base64Of(<<34, 101, 110, 99, 114, 121, 112, 116, 101, 100, 68, 97, 116, 97, 34>>),
     Base64Of(<<53>>),
     Base64Of(<<110, 117, 108, 108>>),
     B64Encode(RSAEncrypt(LoadedKeyPair, Survey, PKCS1v15)),
     B64Encode(RSAEncrypt(LoadedKeyPair, <<53>>, PKCS1v15)),
     B64Encode(RSAEncrypt(LoadedKeyPair, <<110, 111, 32, 106, 115, 111, 110>>,
           PKCS1v15)),
     B64Encode(RSAEncrypt(LoadedKeyPair, Survey, OAEP)),
     B64Encode(RSAEncrypt(LoadedKeyPair, Payload, PKCS1v15)),
     DataGarbage,
     <<109, 111, 99, 107, 95, 108, 111, 99, 97, 116, 105, 111, 110, 95, 100, 97, 116,
           97>>,
     <<>>}

InitDecryptData ==
    /\ call \in [encrypted_data_b64 : DecryptInputs,
                 private_key : KeyPairs \cup {JNone},
                 path : {<<>>},
                 returned : {Unset}]
    /\ pc = "decrypt_data"
    /\ private_key = JNone
    /\ survey_config = Unset
    /\ group_df = <<>>
    /\ decrypted_response = Unset
    /\ encrypted_data_b64 = Unset
    /\ encrypted_key_b64 = Unset
    /\ encrypted_key = <<>>
    /\ aes_key = Unset
    /\ encrypted_data = <<>>
    /\ decrypted_data = Unset
    /\ attempts = <<>>
    /\ attempt_log = <<>>
    /\ decrypted_responses = <<>>
    /\ location_data_points = <<>>
    /\ result = Unset
    /\ results = NewResults
    /\ runner = Unset
    /\ process = Unset
    /\ exit_code = Unset
    /\ csv_file = Unset
    /\ download = Unset

\* the inner try of decrypt_data: a package in which both names are found
\* goes to decrypt_hybrid_format, whose result is returned; anything else,
\* an exception included, goes on to the direct branch
TryHybridFormat ==
    /\ pc = "decrypt_data"
    /\ \E encrypted_package \in {EncryptedPackage(call.encrypted_data_b64)} :
          \E detected \in {IF encrypted_package.ok
                           THEN HybridDetected(encrypted_package.val)
                           ELSE encrypted_package} :
             IF detected.ok /\ detected.val
             THEN /\ \E survey_data \in DecryptHybridFormat(encrypted_package.val,
                                                            call.private_key) :
                        call' = [call EXCEPT !.path = Append(@, "hybrid"),
                                             !.returned = survey_data]
                  /\ pc' = "returned"
             ELSE /\ pc' = "direct"
                  /\ UNCHANGED call
    /\ UNCHANGED <<private_key, survey_config, group_vars, runner_vars, results, exit_code,
                   csv_file, download>>

\* the direct branch of decrypt_data and its except clause
DirectRsaDecrypt ==
    /\ pc = "direct"
    /\ \E outcome \in DirectRsa(call.encrypted_data_b64, call.private_key) :
          call' = [call EXCEPT !.path = Append(@, "direct"),
                               !.returned = ValueOrNone(outcome)]
    /\ pc' = "returned"
    /\ UNCHANGED <<private_key, survey_config, group_vars, runner_vars, results, exit_code,
                   csv_file, download>>

NextDecryptData ==
    \/ TryHybridFormat
    \/ DirectRsaDecrypt

SpecDecryptData == InitDecryptData /\ [][NextDecryptData]_vars

\* what the input of the call decodes to: base64, UTF-8, JSON
CallPackage == EncryptedPackage(call.encrypted_data_b64)

\* a value json.loads can give
IsJsonValue(v) == v.t \in {"dict", "list", "str", "int", "float", "bool", "none"}

\* a JSON object that has both names among its keys
HasBothKeys(v) ==
    /\ v.t = "dict"
    /\ \E i \in 1..Len(v.items) : v.items[i].k = EncryptedDataKey
    /\ \E i \in 1..Len(v.items) : v.items[i].k = EncryptedKeyKey

\* a JSON array with both names among its elements, or a JSON string with
\* both names among its substrings
HoldsBothNames(v) ==
    /\ v.t \in {"list", "str"}
    /\ PyContains(v, EncryptedDataKey).val
    /\ PyContains(v, EncryptedKeyKey).val

\* the direct branch was entered on data longer than the key: None
OversizedGivesNone ==
    /\ B64Decode(call.encrypted_data_b64).ok
    /\ Len(B64Decode(call.encrypted_data_b64).val) > RsaKeyBytes
    => call.returned = JNone

\* C20 as the code has it: decrypt_data returns a JSON value or None and
\* never raises.  When the input base64-decodes to JSON in which both
\* encryptedData and encryptedKey are found by Python's `in` (keys of an
\* object, but also elements of an array or substrings of a string) the
\* result of decrypt_hybrid_format is returned, None included, and direct
\* RSA is not attempted; for an array or a string that result is None.
\* Otherwise the direct RSA-PKCS1v15 branch is taken, and data longer than
\* the key size gives None.
C20_DecryptDataPaths ==
    pc = "returned" =>
       /\ IsJsonValue(call.returned)
       /\ IF CallPackage.ok /\ HasBothKeys(CallPackage.val)
          THEN /\ call.path = <<"hybrid">>
               /\ call.returned
                     \in DecryptHybridFormat(CallPackage.val, call.private_key)
          ELSE IF CallPackage.ok /\ HoldsBothNames(CallPackage.val)
          THEN call.path = <<"hybrid">> /\ call.returned = JNone
          ELSE call.path = <<"direct">> /\ OversizedGivesNone

\* C20 as stated: the hybrid path is taken exactly when the input decodes to
\* a JSON object with both keys, and in every other case direct RSA is
\* attempted.
C20_HybridOnlyForObjects ==
    pc = "returned" =>
       /\ IsJsonValue(call.returned)
       /\ IF CallPackage.ok /\ HasBothKeys(CallPackage.val)
          THEN /\ call.path = <<"hybrid">>
               /\ call.returned
                     \in DecryptHybridFormat(CallPackage.val, call.private_key)
          ELSE call.path = <<"direct">> /\ OversizedGivesNone

\* the input decoded to the JSON string "encryptedData,encryptedKey": the
\* call went to decrypt_hybrid_format and returned None, the direct branch
\* not entered
C20_Witness ==
    /\ pc = "returned"
    /\ CallPackage.ok
    /\ CallPackage.val = JStr(<<101, 110, 99, 114, 121, 112, 116, 101, 100, 68, 97,
          116, 97, 44, 101, 110, 99, 114, 121, 112, 116, 101, 100, 75, 101, 121>>)
    /\ call.private_key = LoadedKeyPair
    /\ call.path = <<"hybrid">>
    /\ call.returned = JNone

(***************************************************************************)
(* Payloads of every JSON kind, and ciphertexts that were cut short or had *)
(* the final byte of the padded plaintext replaced, each in a group of one *)
(* record.                                                                 *)
(***************************************************************************)
\* the plaintexts: empty and non-empty values of every JSON type, a text that
\* is no JSON, and the location payload
PayloadTexts ==
    <<<<123, 125>>, <<91, 93>>, <<48>>, <<102, 97, 108, 115, 101>>, <<110, 117, 108,
          108>>, <<34, 34>>, <<91, 49, 93>>, <<53>>,
      <<34, 97, 98, 34>>, <<123, 34, 113, 34, 58, 49, 125>>, <<49, 50, 51, 52, 53, 54,
            55>>, <<120, 121, 122>>, <<34, 108, 111, 99, 97, 116, 105, 111, 110, 68,
            97, 116, 97, 34>>,
      <<91, 34, 108, 111, 99, 97, 116, 105, 111, 110, 68, 97, 116, 97, 34, 93>>,
            Payload>>

\* the values the final byte of the padded plaintext is replaced by
FinalBytes == {0, 1, 12, 17, 200}

\* the lengths of the byte strings no scheme produced
RawLengths == {1, 15, 16, 17, 27, 28, 32}

\* AES-CBC of a plaintext whose final padding byte was replaced by q
EncryptAesCbcFinalByte(data, key, iv, q) ==
    LET Encrypt(padded) ==
            iv \o CbcEncryptBlocks(key, iv, [padded EXCEPT ![Len(padded)] = q])
    IN  Encrypt(Pkcs7Pad(data))

\* the row of one payload: scheme, plaintext n, and q, the replaced final byte
\* or the length of the byte string; the key of a byte string no scheme
\* produced is wrapped with PKCS1v15 padding
PayloadRow(scheme, n, q) ==
    LET data == IF scheme = "XOR" THEN EncryptXor(PayloadTexts[n], AesKey)
                ELSE IF scheme = "AES-GCM"
                THEN EncryptAesGcm(PayloadTexts[n], AesKey, Nonce)
                ELSE IF scheme = "AES-CBC"
                THEN EncryptAesCbc(PayloadTexts[n], AesKey, Iv)
                ELSE IF scheme = "FINAL"
                THEN EncryptAesCbcFinalByte(PayloadTexts[n], AesKey, Iv, q)
                ELSE [i \in 1..q |-> Garbage48[i]]
        id == <<IF scheme = "XOR" THEN 88 ELSE IF scheme = "AES-GCM" THEN 71
                ELSE IF scheme = "AES-CBC" THEN 67
                ELSE IF scheme = "FINAL" THEN 70 ELSE 82,
                64 + n, 64 + (q \div 16), 64 + (q % 16)>>
        wrapped == IF scheme = "RAW" THEN KeyPkcsB64 ELSE KeyOaepB64
    IN  Row(id, JStr(PackageJson(B64Encode(data), wrapped, LabelGcm)))

PayloadRows ==
    {PayloadRow(scheme, n, 0) :
        scheme \in {"XOR", "AES-GCM", "AES-CBC"}, n \in 1..Len(PayloadTexts)}
    \cup {PayloadRow("FINAL", n, q) : n \in 1..Len(PayloadTexts), q \in FinalBytes}
    \cup {PayloadRow("RAW", 0, q) : q \in RawLengths}

\* _process_survey_group on a group of one such record
NextPayload ==
    \/ group_df = <<>> /\ \E row \in PayloadRows : ResolveEnvelope(row)
    \/ DecryptAesKeyOAEP
    \/ DecryptAesKeyPKCS1v15
    \/ AesKeyReturned
    \/ DecryptXor
    \/ DecryptGcm
    \/ DecryptCbc
    \/ DecryptedDataReturned
    \/ AppendRow
    \/ group_df # <<>> /\ SaveOutputs

SpecPayload == Init /\ [][NextPayload]_vars

\* the bytes AES-CBC deciphered from the current payload
CbcPadded == AesCbcDecrypt(aes_key.bytes, Take(encrypted_data, CbcIvLen),
                           Drop(encrypted_data, CbcIvLen))

\* PKCS7: the final byte p is in 1..16 and the last p bytes all equal p
ValidPkcs7(padded) ==
    LET Check(p) == /\ p \in 1..16
                    /\ p <= Len(padded)
                    /\ \A i \in (Len(padded) - p + 1)..Len(padded) : padded[i] = p
    IN  Len(padded) > 0 /\ Check(padded[Len(padded)])

LastAttempt == attempts[Len(attempts)]

\* C21: whenever the AES-CBC candidate gave decrypt_location_data its value, the
\* deciphered bytes ended in valid PKCS7 padding: no value is parsed from bytes
\* unpadded by a final byte that is no padding length.
C21_CbcPaddingValidated ==
    (/\ pc = "data_returned"
     /\ attempts # <<>>
     /\ LastAttempt.method = "AES-CBC"
     /\ LastAttempt.ok)
    => ValidPkcs7(CbcPadded.val)

\* the attempts of the given method made for the current record
AttemptsOf(method) == {i \in 1..Len(attempts) : attempts[i].method = method}

XorFailed == \E i \in AttemptsOf("XOR") : ~attempts[i].ok

\* C22: AES-GCM is attempted only after XOR failed and on a payload of 28 bytes
\* or more; AES-CBC only after XOR and AES-GCM gave nothing and on a payload of
\* more than 16 bytes; so a payload of 16 bytes or fewer on which XOR failed
\* makes decrypt_location_data return None with no AES attempt made.
C22_AesGatedByLength ==
    /\ AttemptsOf("AES-GCM") # {}
          => XorFailed /\ Len(encrypted_data) >= GcmMinLen
    /\ AttemptsOf("AES-CBC") # {}
          => /\ XorFailed
             /\ Len(encrypted_data) > CbcIvLen
             /\ \A i \in AttemptsOf("AES-GCM") : ~attempts[i].ok
    /\ (pc = "data_returned" /\ XorFailed /\ Len(encrypted_data) <= CbcIvLen)
          => /\ decrypted_data = JNone
             /\ AttemptsOf("AES-GCM") = {}
             /\ AttemptsOf("AES-CBC") = {}

\* a payload of exactly 16 bytes on which XOR failed has been returned from
C22_Witness ==
    /\ pc = "data_returned"
    /\ Len(encrypted_data) = CbcIvLen
    /\ XorFailed
    /\ decrypted_data = JNone
    /\ group_df = <<PayloadRow("RAW", 0, 16)>>

(***************************************************************************)
(* Batches of records whose payloads were encrypted under different        *)
(* symmetric keys, next to records that fail and records without an        *)
(* envelope.                                                               *)
(***************************************************************************)
\* the plaintexts of the XOR records: packages of one and of two points; the
\* XOR records have the 16-byte key 1, the AES records the 32-byte key 3
BatchPlaintexts == {2, 3}

\* {"locationData":[{"latitude":1},5,{"latitude":3}]}: a list whose second
\* element is no object
MixedPoints == <<123, 34, 108, 111, 99, 97, 116, 105, 111, 110, 68, 97, 116, 97, 34,
      58, 91, 123, 34, 108, 97, 116, 105, 116, 117, 100, 101, 34, 58, 49, 125, 44, 53,
      44, 123, 34, 108, 97, 116, 105, 116, 117, 100, 101, 34, 58, 51, 125, 93, 125>>

RowMixedPoints == Row(<<82, 95, 109, 105, 120, 101, 100>>,
      JStr(PackageJson(B64Encode(EncryptXor(MixedPoints,
      AesKey)), KeyOaepB64, LabelGcm)))

BatchRows ==
    {RoundTripRow("XOR", n, 1, 1, LoadedKeyPair, OAEP, TRUE) : n \in BatchPlaintexts}
    \cup {RoundTripRow(scheme, 3, 3, 1, LoadedKeyPair, OAEP, TRUE) :
            scheme \in {"AES-GCM", "AES-CBC"}}
    \cup {RowOtherKey, RowGarbage, RowMock, RowMixedPoints}

\* _process_survey_group on a group of such records
NextBatch ==
    \/ \E row \in BatchRows : ResolveEnvelope(row)
    \/ DecryptAesKeyOAEP
    \/ DecryptAesKeyPKCS1v15
    \/ AesKeyReturned
    \/ DecryptXor
    \/ DecryptGcm
    \/ DecryptCbc
    \/ DecryptedDataReturned
    \/ AppendRow
    \/ SaveOutputs

SpecBatch == Init /\ [][NextBatch]_vars

\* the keys that unwrapping the encryptedKey of a record's envelope with the
\* loaded private key can give, under either padding
UnwrappedKeys(row) ==
    LET Keys(wrapped) ==
            IF ~wrapped.ok THEN {}
            ELSE {PyBytes(KeyFromDecrypted(d.val).val) :
                    d \in {x \in RSADecrypt(private_key, wrapped.val, OAEP)
                                 \cup RSADecrypt(private_key, wrapped.val, PKCS1v15) :
                              x.ok /\ KeyFromDecrypted(x.val).ok}}
        Wrapped(package) ==
            IF ~package.ok \/ package.val.t # "dict" THEN {}
            ELSE Keys(B64DecodeValue(DictGet(package.val.items, EncryptedKeyKey)))
    IN  IF Prefixed(row.encrypted_data) THEN Wrapped(EnvelopeOf(row.encrypted_data.chars))
        ELSE {}

\* the steps of decrypt_location_data and the return from it
DecipherSteps == {"decrypt_location_data", "aes_gcm", "aes_cbc", "data_returned"}

\* C23: the symmetric key with which a record's encryptedData is deciphered is
\* a key unwrapped from the encryptedKey of that same record, and every
\* candidate recorded for the record gave what it gives with that key; a key
\* of another record of the batch is never in use.
C23_KeyOfSameRecord ==
    pc \in DecipherSteps
    => /\ aes_key \in UnwrappedKeys(CurrentRow)
       /\ pc # "decrypt_location_data"
             => \A i \in 1..Len(attempts) :
                    attempts[i].method \in {"XOR", "AES-GCM", "AES-CBC"}
                    => attempts[i].ok = CandidateOutput(attempts[i].method).ok

\* the second record of a batch is being deciphered with its 32-byte key after
\* a first record that was deciphered with the 16-byte key
C23_Witness ==
    /\ pc = "data_returned"
    /\ Len(group_df) = 2
    /\ group_df[1] = RoundTripRow("XOR", 2, 1, 1, LoadedKeyPair, OAEP, TRUE)
    /\ group_df[2] = RoundTripRow("AES-CBC", 3, 3, 1, LoadedKeyPair, OAEP, TRUE)
    /\ aes_key = PyBytes(AesKeyOf(3))
    /\ decrypted_data = PackageOf(2)

(***************************************************************************)
(* One iteration of the loop of _process_survey_group as a function of the *)
(* record, the loaded private key and the configuration of the group.      *)
(***************************************************************************)
\* decrypt_aes_key: the values it can return for encrypted_key_b64
DecryptAesKey(key_b64) ==
    LET Key(d) == IF d.ok /\ KeyFromDecrypted(d.val).ok
                  THEN PyBytes(KeyFromDecrypted(d.val).val) ELSE JNone
        FromPkcs(wrapped) == {Key(d) : d \in RSADecrypt(private_key, wrapped, PKCS1v15)}
        FromOaep(wrapped) ==
            UNION {IF Key(d) # JNone THEN {Key(d)} ELSE FromPkcs(wrapped) :
                     d \in RSADecrypt(private_key, wrapped, OAEP)}
        Decoded(wrapped) == IF ~wrapped.ok THEN {JNone} ELSE FromOaep(wrapped.val)
    IN  Decoded(B64DecodeValue(key_b64))

\* decrypt_location_data: the value it returns for data_b64 and the key
DecryptLocationData(data_b64, key) ==
    LET Value(parsed, otherwise) == IF parsed.ok THEN parsed.val ELSE otherwise
        Cbc(data) == IF Len(data) > CbcIvLen
                     THEN Value(CbcCandidate(data, key.bytes), JNone) ELSE JNone
        Gcm(data) == IF Len(data) >= GcmMinLen /\ GcmCandidate(data, key.bytes).ok
                     THEN GcmCandidate(data, key.bytes).val ELSE Cbc(data)
        Xor(data) == IF XorCandidate(data, key.bytes).ok
                     THEN XorCandidate(data, key.bytes).val ELSE Gcm(data)
        Decoded(data) == IF ~data.ok THEN JNone ELSE Xor(data.val)
    IN  Decoded(B64DecodeValue(data_b64))

\* what an iteration makes of a record: the output row (Unset when the
\* iteration ends in continue) and the location points it adds
Outcome(row, points) == [row |-> row, points |-> points]

\* the body of `if decrypted_data:` and its else branch
DecryptedOutcome(copy, value, config) ==
    LET summary == [copy EXCEPT !.encrypted_data = DecryptedSummary(value)]
        has == IF config.location_column = "encrypted_data"
               THEN PyContains(value, LocationDataKey) ELSE Ok(FALSE)
    IN  IF ~PyTruthy(value)
        THEN Outcome([copy EXCEPT !.encrypted_data = DecryptionFailed], <<>>)
        ELSE IF ~has.ok
        THEN Outcome([copy EXCEPT !.encrypted_data = ProcessingError(has.err)], <<>>)
        ELSE IF value.t # "dict"
        THEN Outcome([copy EXCEPT !.encrypted_data = ProcessingError(
                         <<39>> \o PyTypeName(value)
                         \o <<39, 32, 111, 98, 106, 101, 99, 116, 32, 104, 97, 115, 32,
                               110, 111, 32, 97, 116, 116, 114, 105, 98, 117, 116, 101,
                               32, 39, 105, 116, 101, 109, 115, 39>>)],
                     IF has.val THEN ExtractLocationPoints(value, copy.ResponseId)
                     ELSE <<>>)
        ELSE Outcome([summary EXCEPT !.decrypted_columns =
                         StoreDecryptedFields(@, value.items, 1)],
                     IF has.val THEN ExtractLocationPoints(value, copy.ResponseId)
                     ELSE <<>>)

\* the try block around the envelope
EnvelopeOutcomes(copy, chars, config) ==
    LET Components(data_b64, key_b64) ==
            IF ~(PyTruthy(data_b64) /\ PyTruthy(key_b64)) THEN {Outcome(copy, <<>>)}
            ELSE {IF key = JNone
                  THEN Outcome([copy EXCEPT !.encrypted_data = KeyDecryptionFailed],
                        <<>>)
                  ELSE DecryptedOutcome(copy, DecryptLocationData(data_b64, key),
                        config) :
                     key \in DecryptAesKey(key_b64)}
        Parsed(package) ==
            IF ~package.ok
            THEN {Outcome([copy EXCEPT !.encrypted_data = ProcessingError(package.err)],
                          <<>>)}
            ELSE Components(DictGet(package.val.items, EncryptedDataKey),
                            DictGet(package.val.items, EncryptedKeyKey))
    IN  Parsed(ParsePackage(chars))

RecordOutcomes(row, config) ==
    LET field == row.encrypted_data
        copy == WithHash(row)
    IN  IF ~PyTruthy(field) THEN {Outcome(copy, <<>>)}
        ELSE IF ~HasEnvelopePrefix(field)
        THEN {Outcome(IF field.t = "str" /\ Len(field.chars) > 0
                      THEN [copy EXCEPT !.encrypted_data = NonEncrypted(field.chars)]
                      ELSE copy, <<>>)}
        ELSE IF PackageFormat(field.chars) = "none" THEN {Outcome(Unset, <<>>)}
        ELSE EnvelopeOutcomes(copy, field.chars, config)

RECURSIVE PointsOfRecords(_, _, _)
\* the points of records i..n of the group, record after record, each taken
\* from the outcome that has the row the run produced
PointsOfRecords(i, n, emitted) ==
    IF i > n THEN <<>>
    ELSE LET mine == {o \in RecordOutcomes(group_df[i], survey_config) :
                        o.row = emitted[i]}
         IN  (CHOOSE o \in mine : TRUE).points \o PointsOfRecords(i + 1, n, emitted)

\* C24: when the batch is finished, the output row of every record is what
\* the iteration makes of that record alone, given the loaded private key
\* (and the configuration of the group), and the location points are those of
\* the records one by one: nothing depends on the other records of the batch,
\* on their outcomes or on the position of the record.
C24_RecordIndependence ==
    pc = "done"
    => /\ Len(decrypted_responses) = Len(group_df)
       /\ \A i \in 1..Len(group_df) :
              \E o \in RecordOutcomes(group_df[i], survey_config) :
                  o.row = decrypted_responses[i]
       /\ location_data_points = PointsOfRecords(1, Len(group_df), decrypted_responses)

\* a finished batch of a record that failed on its key followed by a record
\* that was deciphered, with the points of the second record only
C24_Witness ==
    /\ pc = "done"
    /\ group_df = <<RowOtherKey, RoundTripRow("AES-GCM", 3, 3, 1, LoadedKeyPair, OAEP,
                                             TRUE)>>
    /\ decrypted_responses[1].encrypted_data = KeyDecryptionFailed
    /\ StartsWith(decrypted_responses[2].encrypted_data.chars, DecryptedTag)
    /\ Len(location_data_points) = 2

\* the values decrypt_location_data can have returned for a record (None for
\* a record that never reached it)
DecipheredValues(row) ==
    LET Components(data_b64, key_b64) ==
            IF ~(PyTruthy(data_b64) /\ PyTruthy(key_b64)) THEN {JNone}
            ELSE {IF key = JNone THEN JNone ELSE DecryptLocationData(data_b64, key) :
                     key \in DecryptAesKey(key_b64)}
        Parsed(package) ==
            IF ~package.ok \/ package.val.t # "dict" THEN {JNone}
            ELSE Components(DictGet(package.val.items, EncryptedDataKey),
                            DictGet(package.val.items, EncryptedKeyKey))
    IN  IF Prefixed(row.encrypted_data) THEN Parsed(ParsePackage(row.encrypted_data.chars))
        ELSE {JNone}

\* the locationData list of a record's payload, empty when the record has
\* none or its survey type has no location column
LocationDataOf(row) ==
    LET List(value) ==
            IF /\ survey_config.location_column = "encrypted_data"
               /\ value.t = "dict"
               /\ DictHas(value.items, LocationDataKey)
               /\ DictGet(value.items, LocationDataKey).t = "list"
            THEN DictGet(value.items, LocationDataKey).elems ELSE <<>>
    IN  List(CHOOSE value \in DecipheredValues(row) : TRUE)

\* the positions of a list that hold objects
DictPositions(elems) == {p \in 1..Len(elems) : elems[p].t = "dict"}

RECURSIVE PointsBefore(_)
\* the number of points of the records before record i
PointsBefore(i) ==
    IF i <= 1 THEN 0
    ELSE PointsBefore(i - 1)
         + Cardinality(DictPositions(LocationDataOf(group_df[i - 1])))

\* 'latitude'
LatitudeKey == <<108, 97, 116, 105, 116, 117, 100, 101>>

\* C25: in the location output of a finished batch the points of record i
\* stand together, after those of the records before it; each of them carries
\* the record's ResponseId and the 1-based position of its element in the
\* record's locationData as point_sequence, with that element's latitude, and
\* the point_sequence values of a record increase strictly.
C25_PointsInOrder ==
    pc = "done"
    => /\ Len(location_data_points) = PointsBefore(Len(group_df) + 1)
       /\ \A i \in 1..Len(group_df) :
            LET Ordered(elems, first, last) ==
                    \A k \in first..last :
                        LET point == location_data_points[k]
                        IN  /\ point.response_id = group_df[i].ResponseId
                            /\ point.point_sequence \in DictPositions(elems)
                            /\ point.latitude
                                   = LocGet(elems[point.point_sequence], LatitudeKey)
                            /\ k > first
                                  => location_data_points[k - 1].point_sequence
                                         < point.point_sequence
            IN  Ordered(LocationDataOf(group_df[i]), PointsBefore(i) + 1,
                        PointsBefore(i + 1))

\* a finished batch: a record with points at positions 1 and 3 of its list,
\* then a record with two points
C25_Witness ==
    /\ pc = "done"
    /\ group_df = <<RowMixedPoints,
                    RoundTripRow("XOR", 3, 1, 1, LoadedKeyPair, OAEP, TRUE)>>
    /\ Len(location_data_points) = 4
    /\ location_data_points[2].point_sequence = 3
    /\ location_data_points[3].point_sequence = 1
    /\ location_data_points[3].response_id = group_df[2].ResponseId

(***************************************************************************)
(* decrypt_survey_data.decrypt_hybrid_format on packages made from a key,  *)
(* a way of wrapping it, a label and a plaintext.                          *)
(***************************************************************************)
\* the symmetric keys: two random-looking keys with bytes above 127, and keys
\* of ASCII characters: one that reads as base64 text, one of five letters,
\* one with a character outside the base64 alphabet, one of such characters only
HybridKeys ==
    {AesKeyOf(1), AesKeyOf(2), <<48, 49, 50, 51, 52, 53, 54, 55, 56, 57, 97, 98, 99,
          100, 101, 102>>, <<97, 98, 99, 100, 101>>, <<107, 101, 121, 33>>, <<33, 33,
          33, 33>>}

\* the plaintexts: {}, [1], {"q":1} and the location payload
HybridTexts == {PayloadTexts[1], PayloadTexts[7], PayloadTexts[10], Payload}

\* the ways of wrapping the key: base64 text of the key or the raw key under
\* PKCS1v15, and base64 text under OAEP
HybridWraps == {"base64", "raw", "oaep"}

\* the labels: the one of the mobile client, 'XOR', and 'RSA-OAEP'
HybridLabels == {LabelGcm, LabelXor, <<82, 83, 65, 45, 79, 65, 69, 80>>}

WrappedKey(key, wrap) ==
    B64Encode(RSAEncrypt(LoadedKeyPair, IF wrap = "raw" THEN key ELSE B64Encode(key),
                         IF wrap = "oaep" THEN OAEP ELSE PKCS1v15))

\* the package of a plaintext XOR-encrypted with the key
HybridPackage(text, key, wrap, label) ==
    JsonLoads(PackageJson(B64Encode(EncryptXor(text, key)), WrappedKey(key, wrap),
                          label)).val

HybridPackages ==
    {HybridPackage(text, key, wrap, label) :
        text \in HybridTexts, key \in HybridKeys, wrap \in HybridWraps,
        label \in HybridLabels}

\* a call of decrypt_hybrid_format with the private key of either key pair
InitHybrid ==
    /\ call \in [encrypted_package : HybridPackages,
                 private_key : KeyPairs,
                 returned : {Unset}]
    /\ pc = "decrypt_hybrid_format"
    /\ private_key = JNone
    /\ survey_config = Unset
    /\ group_df = <<>>
    /\ decrypted_response = Unset
    /\ encrypted_data_b64 = Unset
    /\ encrypted_key_b64 = Unset
    /\ encrypted_key = <<>>
    /\ aes_key = Unset
    /\ encrypted_data = <<>>
    /\ decrypted_data = Unset
    /\ attempts = <<>>
    /\ attempt_log = <<>>
    /\ decrypted_responses = <<>>
    /\ location_data_points = <<>>
    /\ result = Unset
    /\ results = NewResults
    /\ runner = Unset
    /\ process = Unset
    /\ exit_code = Unset
    /\ csv_file = Unset
    /\ download = Unset

\* the call returns
HybridFormatReturns ==
    /\ pc = "decrypt_hybrid_format"
    /\ \E survey_data \in DecryptHybridFormat(call.encrypted_package,
          call.private_key) :
          call' = [call EXCEPT !.returned = survey_data]
    /\ pc' = "returned"
    /\ UNCHANGED <<private_key, survey_config, group_vars, runner_vars, results, exit_code,
                   csv_file, download>>

NextHybrid == HybridFormatReturns

SpecHybrid == InitHybrid /\ [][NextHybrid]_vars

\* the package of the call was made for the private key of the call from the
\* text and the key, the key wrapped under PKCS1v15 in the given way
MadeFrom(text, key, wrap) ==
    /\ call.private_key = LoadedKeyPair
    /\ DictGet(call.encrypted_package.items, EncryptedKeyKey)
           = JStr(WrappedKey(key, wrap))
    /\ DictGet(call.encrypted_package.items, EncryptedDataKey)
           = JStr(B64Encode(EncryptXor(text, key)))

\* the key bytes read as base64 text
ReadsAsBase64(key) == KeyFromDecrypted(key).ok

ValidAttempts ==
    {i \in 1..Len(attempts) :
        attempts[i].method \in {"XOR", "AES-GCM", "AES-CBC"} /\ attempts[i].ok}

\* C27: the value of the first candidate that gives valid UTF-8 JSON is what
\* decrypt_location_data returns, with no later candidate tried, also when
\* that value is empty or falsy; and the caller then marks the field
\* DECRYPTION_FAILED, adds no column and no point, as for a record no
\* candidate deciphered.
C27_FalsyValueReturned ==
    /\ (pc \in {"data_returned", "append"} /\ decrypted_data # Unset)
          => /\ ValidAttempts \subseteq {Len(attempts)}
             /\ ValidAttempts # {}
                   => decrypted_data = CandidateOutput(LastAttempt.method).val
             /\ ValidAttempts = {} => decrypted_data = JNone
    /\ (pc = "append" /\ decrypted_data # Unset /\ ~PyTruthy(decrypted_data))
          => /\ decrypted_response.encrypted_data = DecryptionFailed
             /\ decrypted_response.decrypted_columns = <<>>
             /\ location_data_points = <<>>

\* the AES-GCM candidate gave {} after XOR failed, AES-CBC was not tried, and
\* the field is marked DECRYPTION_FAILED
C27_Witness ==
    /\ pc = "append"
    /\ group_df = <<PayloadRow("AES-GCM", 1, 0)>>
    /\ decrypted_data = JDict(<<>>)
    /\ attempts = <<Attempt(OAEP, TRUE), Attempt("XOR", FALSE), Attempt("AES-GCM",
          TRUE)>>
    /\ decrypted_response.encrypted_data = DecryptionFailed

\* a value that is not empty and no object
NonObject(value) == PyTruthy(value) /\ value.t # "dict"

IsProcessingError(field) == field.t = "str" /\ StartsWith(field.chars,
      ProcessingErrorTag)

\* C28: a record whose payload deciphers to a non-empty JSON value that is no
\* object leaves the iteration with PROCESSING_ERROR in its field, not the
\* DECRYPTED summary, with no decrypted_<key> column and no location point;
\* and its row is in the output of the group.
C28_NonObjectIsProcessingError ==
    /\ (pc = "append" /\ decrypted_data # Unset /\ NonObject(decrypted_data))
          => /\ IsProcessingError(decrypted_response.encrypted_data)
             /\ decrypted_response.decrypted_columns = <<>>
             /\ location_data_points = <<>>
    /\ (pc = "done" /\ Len(group_df) = 1
        /\ NonObject(CHOOSE value \in DecipheredValues(group_df[1]) : TRUE))
          => /\ Len(decrypted_responses) = 1
             /\ IsProcessingError(decrypted_responses[1].encrypted_data)
             /\ decrypted_responses[1].decrypted_columns = <<>>
             /\ location_data_points = <<>>

\* the list ["locationData"] was deciphered for a survey type with a
\* location column; the row is out, marked PROCESSING_ERROR, without points
C28_Witness ==
    /\ pc = "done"
    /\ group_df = <<PayloadRow("XOR", 14, 0)>>
    /\ survey_config.location_column = "encrypted_data"
    /\ Len(decrypted_responses) = 1
    /\ IsProcessingError(decrypted_responses[1].encrypted_data)
    /\ location_data_points = <<>>

(***************************************************************************)
(* pipeline_runner.main and PipelineRunner.run, with the process of the    *)
(* download step, download_qualtrics_data.py, step by step.  The other     *)
(* commands are processes that exit with one of ExitCodes.                 *)
(***************************************************************************)
\* the exit codes of a command: 0, and 1 for every failure
ExitCodes == {0, 1}

\* the most status polls of an export before max_wait_time has passed
MaxPolls == 2

\* what the runner finds: the three Qualtrics settings and the password in
\* the environment, a password typed at the prompt, the PEM file, a bucket of
\* buffered payloads with its script, and pandas and requests installed
RunnerEnvs ==
    [api_token : BOOLEAN, base_url : BOOLEAN, survey_id : BOOLEAN,
     password : BOOLEAN, typed : BOOLEAN, private_key : BOOLEAN,
     bucket : BOOLEAN, dependencies : BOOLEAN]

\* validate_secrets returns without raising
SecretsValid(env) ==
    /\ env.api_token /\ env.base_url /\ env.survey_id
    /\ env.password \/ env.typed
    /\ env.private_key

\* StepResult(name, ..., status, return_code, ...)
StepResult(name, return_code) ==
    [name |-> name, return_code |-> return_code,
     status |-> IF return_code = 0 THEN "success" ELSE "failed"]

\* runner = PipelineRunner() in main
InitRunner ==
    /\ runner \in [env : RunnerEnvs, validated : {FALSE}, step_results : {<<>>},
                   success : {TRUE}, summary : {Unset}]
    /\ process = Unset
    /\ pc = "run"
    /\ exit_code = Unset
    /\ private_key = JNone
    /\ survey_config = Unset
    /\ group_df = <<>>
    /\ decrypted_response = Unset
    /\ encrypted_data_b64 = Unset
    /\ encrypted_key_b64 = Unset
    /\ encrypted_key = <<>>
    /\ aes_key = Unset
    /\ encrypted_data = <<>>
    /\ decrypted_data = Unset
    /\ attempts = <<>>
    /\ attempt_log = <<>>
    /\ decrypted_responses = <<>>
    /\ location_data_points = <<>>
    /\ result = Unset
    /\ results = NewResults
    /\ csv_file = Unset
    /\ download = Unset
    /\ call = Unset

\* what the runner steps leave alone
other_vars ==
    <<private_key, survey_config, group_vars, results, csv_file, download, call>>

\* run: prepare_environment and validate_secrets; an exception of
\* validate_secrets ends main with 1
ValidateSecrets ==
    /\ pc = "run"
    /\ IF SecretsValid(runner.env)
       THEN /\ runner' = [runner EXCEPT !.validated = TRUE]
            /\ pc' = "download_step"
            /\ UNCHANGED exit_code
       ELSE /\ exit_code' = 1
            /\ pc' = "exit"
            /\ UNCHANGED runner
    /\ UNCHANGED <<process, other_vars>>

\* _download_step starts download_qualtrics_data.py: the dependency check
\* under __main__ exits with 1, else main runs with the settings of the
\* environment
StartDownload ==
    /\ pc = "download_step"
    /\ process' = IF runner.env.dependencies
                  THEN [at |-> "create_export_request", polls |-> 0,
                        export_file |-> FALSE, returncode |-> Unset]
                  ELSE [at |-> "exited", polls |-> 0, export_file |-> FALSE,
                        returncode |-> 1]
    /\ pc' = "download_process"
    /\ UNCHANGED <<runner, exit_code, other_vars>>

\* main after download_all_data returned: a message is printed, main returns
\* None and the interpreter exits with 0
MainReturned(export_file) ==
    [at |-> "exited", polls |-> process.polls, export_file |-> export_file,
     returncode |-> 0]

\* _create_export_request: status 200 gives the progressId; another status or
\* an exception gives None, and download_survey_responses returns False
CreateExportRequest ==
    /\ pc = "download_process"
    /\ process.at = "create_export_request"
    /\ \E response \in {"200", "rejected", "exception"} :
          process' = IF response = "200"
                     THEN [process EXCEPT !.at = "wait_for_export_completion"]
                     ELSE MainReturned(FALSE)
    /\ UNCHANGED <<pc, runner, exit_code, other_vars>>

\* _wait_for_export_completion: one pass of the loop, or the timeout
WaitForExportCompletion ==
    /\ pc = "download_process"
    /\ process.at = "wait_for_export_completion"
    /\ IF process.polls >= MaxPolls THEN process' = MainReturned(FALSE)
       ELSE \E response \in {"complete", "failed", "inProgress", "not 200",
             "exception"} :
               process' = IF response = "complete"
                          THEN [process EXCEPT !.at = "download_export_file",
                                               !.polls = @ + 1]
                          ELSE IF response = "inProgress"
                          THEN [process EXCEPT !.polls = @ + 1]
                          ELSE [MainReturned(FALSE) EXCEPT !.polls = @ + 1]
    /\ UNCHANGED <<pc, runner, exit_code, other_vars>>

\* _download_export_file: a CSV body or a zip archive with a CSV gives the
\* file; an archive without one, another status or an exception gives False
DownloadExportFile ==
    /\ pc = "download_process"
    /\ process.at = "download_export_file"
    /\ \E response \in {"csv", "zip", "zip without csv", "not 200", "exception"} :
          process' = MainReturned(response \in {"csv", "zip"})
    /\ UNCHANGED <<pc, runner, exit_code, other_vars>>

\* _run_command after subprocess.run: the StepResult is appended
RunCommand(name, returncode) ==
    [runner EXCEPT !.step_results = Append(@, StepResult(name, returncode))]

\* _download_step after the download command: False when it failed; the
\* buffered download follows when the bucket is configured
DownloadCommandReturned ==
    /\ pc = "download_process"
    /\ process.at = "exited"
    /\ IF process.returncode # 0
       THEN /\ runner' = [RunCommand("download", process.returncode)
                             EXCEPT !.success = FALSE]
            /\ pc' = "decrypt_step"
       ELSE /\ runner' = RunCommand("download", process.returncode)
            /\ pc' = IF runner.env.bucket THEN "buffered" ELSE "decrypt_step"
    /\ UNCHANGED <<process, exit_code, other_vars>>

\* a variant of RunStep that skips a step once a step has failed
RunStepUnlessFailed(name, at, next) ==
    /\ pc = at
    /\ pc' = next
    /\ IF runner.success
       THEN \E returncode \in ExitCodes :
               runner' = [RunCommand(name, returncode)
                             EXCEPT !.success = @ /\ returncode = 0]
       ELSE UNCHANGED runner
    /\ UNCHANGED <<process, exit_code, other_vars>>

\* success &= self._..._step(): the command runs and its result is and-ed
RunStep(name, at, next) ==
    /\ pc = at
    /\ pc' = next
    /\ \E returncode \in ExitCodes :
          runner' = [RunCommand(name,
                returncode) EXCEPT !.success = @ /\ returncode = 0]
    /\ UNCHANGED <<process, exit_code, other_vars>>

\* _download_step: the buffered download
BufferedDownload == RunStep("buffered", "buffered", "decrypt_step")

DecryptStep == RunStep("decrypt", "decrypt_step", "structure_step")

StructureStep == RunStep("structure", "structure_step", "period_summary_step")

PeriodSummaryStep == RunStep("periods", "period_summary_step", "monthly_summary_step")

MonthlySummaryStep == RunStep("monthly", "monthly_summary_step", "report_step")

ReportStep == RunStep("reports", "report_step", "write_summary")

\* _write_summary: last_run_summary.json
WriteSummary ==
    /\ pc = "write_summary"
    /\ runner' = [runner EXCEPT !.summary = [success |-> runner.success,
                                             steps |-> runner.step_results]]
    /\ pc' = "run_returned"
    /\ UNCHANGED <<process, exit_code, other_vars>>

\* main: return 0 if success else 1
RunReturned ==
    /\ pc = "run_returned"
    /\ exit_code' = IF runner.success THEN 0 ELSE 1
    /\ pc' = "exit"
    /\ UNCHANGED <<runner, process, other_vars>>

NextRunner ==
    \/ ValidateSecrets
    \/ StartDownload
    \/ CreateExportRequest
    \/ WaitForExportCompletion
    \/ DownloadExportFile
    \/ DownloadCommandReturned
    \/ BufferedDownload
    \/ DecryptStep
    \/ StructureStep
    \/ PeriodSummaryStep
    \/ MonthlySummaryStep
    \/ ReportStep
    \/ WriteSummary
    \/ RunReturned

SpecRunner == InitRunner /\ [][NextRunner]_vars

\* the names of the commands in the order of run, with and without the
\* buffered download
StepOrder == <<"download", "buffered", "decrypt", "structure", "periods", "monthly",
               "reports">>

StepOrderUnbuffered == <<"download", "decrypt", "structure", "periods", "monthly",
                         "reports">>

StepNames == [i \in 1..Len(runner.step_results) |-> runner.step_results[i].name]

AllExitedZero == \A i \in 1..Len(runner.step_results) :
                     runner.step_results[i].return_code = 0

\* C29: the commands run in the fixed order download (with the buffered
\* download after it when it applies), decrypt, structure, periods, monthly,
\* reports, and only after validate_secrets returned; once run has returned,
\* every one of the six steps has run, whatever failed before it; the result
\* is success exactly when every command that ran exited with 0; and the
\* summary, written after the reports step, has that result and one record
\* for every command that ran, in the order they ran.
C29_RunStepsInOrder ==
    /\ \E order \in {StepOrder, StepOrderUnbuffered} :
          /\ Len(StepNames) <= Len(order)
          /\ StepNames = SubSeq(order, 1, Len(StepNames))
    /\ runner.step_results # <<>> => runner.validated /\ SecretsValid(runner.env)
    /\ process # Unset => runner.validated
    /\ runner.success <=> AllExitedZero
    /\ (pc \in {"write_summary", "run_returned"} \/ (pc = "exit" /\ runner.validated))
          => /\ StepNames \in {StepOrder, StepOrderUnbuffered}
             /\ StepNames = StepOrder
                   <=> runner.env.bucket /\ runner.step_results[1].return_code = 0
    /\ runner.summary # Unset
          => /\ runner.summary.steps = runner.step_results
             /\ runner.summary.success = runner.success
             /\ StepNames[Len(StepNames)] = "reports"
    /\ pc = "exit" => /\ exit_code = 0 <=> (runner.validated /\ AllExitedZero)
                      /\ runner.validated <=> runner.summary # Unset

\* a run whose decrypt command failed has gone on through the later steps and
\* ended with 1 and a summary of six records
C29_Witness ==
    /\ pc = "exit"
    /\ exit_code = 1
    /\ runner.summary # Unset
    /\ Len(runner.summary.steps) = 6
    /\ runner.summary.steps[2] = StepResult("decrypt", 1)
    /\ runner.summary.steps[6] = StepResult("reports", 0)
    /\ ~runner.summary.success

\* C30: when the download produced no export file, the download process has
\* exited with a code other than 0, the runner has recorded the download step
\* as failed, and the run ends in failure.
C30_DownloadFailureVisible ==
    (process # Unset /\ process.at = "exited" /\ ~process.export_file)
    => /\ process.returncode # 0
       /\ runner.step_results # <<>>
             => /\ runner.step_results[1] = StepResult("download", process.returncode)
                /\ runner.step_results[1].status = "failed"
                /\ ~runner.success
       /\ pc = "exit" => exit_code = 1

=============================================================================
